---- MODULE Spec2Model ----
(***************************************************************************)
(* Model of the hnswindex index coordinator (indexImpl), the bbolt-backed  *)
(* Storage it persists to and the HNSWIndex wrapper it owns, for one named *)
(* index.  Every coordinator operation is one atomic action that performs  *)
(* the whole handler, storage calls and autosave included.                 *)
(***************************************************************************)
EXTENDS Integers, Sequences, FiniteSets, TLC

\* ------------------------------------------------------------------ bounds
MaxOps == 3            \* coordinator and storage calls in one behaviour
MaxId == 4             \* largest vector id the model lets the counter hand out
MaxFailures == 1       \* documents of one batch whose processing fails
LongTokens == 51       \* token count of the text "L": more than ChunkSize
MaxRuns == 2           \* AddDocumentBatch calls one goroutine makes in a row
MaxMgrOps == 4         \* manager and store calls in one behaviour
MaxCancelOps == 2      \* cancellable ingests in one behaviour
MaxTexts == 3          \* texts in one embedding batch
MaxWorkers == 2        \* worker goroutines of one concurrent embedding batch
MaxThreads == 2        \* goroutines calling into one manager and HNSWIndex

\* -------------------------------------------------------- program constants
ChunkSize == 50        \* cfg.ChunkSize of the batch-processing test
ChunkOverlap == 10     \* cfg.ChunkOverlap of the batch-processing test

URIs == {"u1", "u2"}
Titles == {"T"}
Contents == {"s", "L"}
FailModes == {"ok", "embed", "add"}

\* Document (hnswindex.go): URI, Title, Content; Metadata is nil throughout.
Docs == [URI : URIs, Title : Titles, Content : Contents]

\* The batches a caller submits: no document, one document, or two documents
\* of which the first has URI "u1" (two URIs, or the same URI twice).
Batches ==
    {<< >>} \cup {<<d>> : d \in Docs}
            \cup {<<d, e>> : d \in {x \in Docs : x.URI = "u1"}, e \in Docs}

\* What the embedding service does for each document of a batch.
ModesFor(docs) ==
    {m \in [1..Len(docs) -> FailModes] :
        Cardinality({i \in 1..Len(docs) : m[i] # "ok"}) <= MaxFailures}

\* os.Create in HNSWIndex.Save succeeds: the data directory stays writable.
SaveOutcomes == {TRUE}

\* ------------------------------------------------------------ bucket helpers
\* bbolt Bucket.Put / Bucket.Delete / Bucket.Get on one key.
Put(b, k, v) == [x \in (DOMAIN b) \cup {k} |-> IF x = k THEN v ELSE b[x]]
Del(b, k) == [x \in (DOMAIN b) \ {k} |-> b[x]]
Has(b, k) == k \in DOMAIN b
EmptyBucket == [x \in {} |-> 0]

\* --------------------------------------------------------------- chunker
\* encoder.Encode on the texts of the model: "s" is one token, "L" is
\* LongTokens tokens, "L0" and "L1" are the texts of the two windows of "L".
Encode(text) ==
    CASE text = "" -> << >>
      [] text = "s" -> <<100>>
      [] text = "L" -> [i \in 1..LongTokens |-> i]
      [] text = "L0" -> [i \in 1..ChunkSize |-> i]
      [] text = "L1" ->
            [i \in 1..(LongTokens - (ChunkSize - ChunkOverlap)) |->
                i + (ChunkSize - ChunkOverlap)]

Texts == {"", "s", "L", "L0", "L1"}

\* encoder.Decode: the text whose encoding is the token window.
Decode(tokens) == CHOOSE t \in Texts : Encode(t) = tokens

Min(a, b) == IF a < b THEN a ELSE b

\* generateChunkID: hex16(SHA-256(text "_" position)); the digest is kept as
\* the pair it is computed from.
generateChunkID(text, position) == <<text, position>>

\* The loop of Chunker.Chunk from token offset i with ordinal position.
RECURSIVE ChunkLoop(_, _, _)
ChunkLoop(tokens, i, position) ==
    IF i >= Len(tokens) THEN << >>
    ELSE LET end == Min(i + ChunkSize, Len(tokens))
             chunkText == Decode(SubSeq(tokens, i + 1, end))
             chunk == [ID |-> generateChunkID(chunkText, position),
                       Text |-> chunkText, Position |-> position]
         IN  IF end = Len(tokens) THEN <<chunk>>
             ELSE <<chunk>> \o ChunkLoop(tokens, i + (ChunkSize - ChunkOverlap),
                                         position + 1)

\* Chunker.Chunk
Chunk(text) ==
    IF text = "" THEN << >>
    ELSE LET tokens == Encode(text)
         IN  IF Len(tokens) <= ChunkSize
             THEN <<[ID |-> generateChunkID(text, 0), Text |-> text, Position |-> 0]>>
             ELSE ChunkLoop(tokens, 0, 0)

\* ChunkDocument that leaves the chunk ids as Chunk computed them.
ChunkDocumentBareID(documentURI, text) ==
    LET cs == Chunk(text)
    IN  [i \in 1..Len(cs) |->
            [ID |-> <<"", cs[i].ID>>, Text |-> cs[i].Text,
             Position |-> cs[i].Position, DocumentURI |-> documentURI]]

\* Chunker.ChunkDocument: the chunk id becomes "<URI>_<id>"; the id is always
\* 16 hex digits, so the string determines both parts and is kept as the pair.
ChunkDocument(documentURI, text) ==
    LET cs == Chunk(text)
    IN  [i \in 1..Len(cs) |->
            [ID |-> <<documentURI, cs[i].ID>>, Text |-> cs[i].Text,
             Position |-> cs[i].Position, DocumentURI |-> documentURI]]

\* computeDocumentHash: SHA-256 over Title then Content (Metadata is nil);
\* the digest is kept as the fields it is computed from.
computeDocumentHash(doc) == <<doc.Title, doc.Content>>


\* ------------------------------------------------------------------ state
VARIABLES
    created,      \* the index is registered in _indexes and its buckets exist
    autoSave,     \* Config.AutoSave
    documents,    \* <name>_documents bucket: URI -> stored Document
    hashes,       \* <name>_hashes bucket: URI -> content hash
    chunks,       \* <name>_chunks bucket: chunk id -> stored Chunk
    docChunks,    \* <name>_doc_chunks bucket: URI -> list of chunk ids
    metadata,     \* <name>_metadata bucket, key "metadata": IndexMetadata
    graph,        \* HNSWIndex.graph: the vector ids in the in-memory graph
    isModified,   \* HNSWIndex.isModified
    diskGraph,    \* the vector ids in the exported file index.hnsw
    issued,       \* history: every id GetNextHNSWId has returned
    reissued,     \* history: some id was returned a second time
    idLog,        \* history: ids returned since creation or the last Clear
    ops,          \* history: number of calls made so far
    clean,        \* history: only ingests without failure, deletes and clears ran
    lastOp,       \* history: the operation just completed and its result
    workers,      \* the AddDocumentBatch calls in flight, one per goroutine
    alive,        \* a process holds an IndexManager on the data path
    dbOpen,       \* the bbolt handle of Storage is open (file lock held)
    registry,     \* _indexes bucket: the registered index names
    buckets,      \* index name -> the five per-index buckets
    files,        \* index name -> vector ids in indexes/<name>/index.hnsw
    implIndexes,  \* indexManagerImpl.indexes: name -> HNSW wrapper state
    wrapperIndexes, \* IndexManager.indexes: the names in the wrapper's map
    mgrOps,       \* history: number of manager and store calls so far
    mgrOp,        \* history: the manager or store call just completed
    ann,          \* an HNSWIndex used on its own: graph, isModified, file
    annOp,        \* history: the HNSWIndex call just completed
    chunker,      \* a Chunker used on its own, its last text and chunks
    emb,          \* a batch call of the OllamaEmbedder in flight or returned
    threads,      \* goroutines calling into one manager and one HNSWIndex
    locks,        \* the sync.RWMutex fields: writer, readers, waiting writers
    dim           \* the embedding model and the dimensions of the HNSWIndexes

concVars == <<workers>>

mgrVars == <<alive, dbOpen, registry, buckets, files, implIndexes,
             wrapperIndexes, mgrOps, mgrOp>>

dataVars == <<created, autoSave, documents, hashes, chunks, docChunks, metadata,
              graph, isModified, diskGraph, issued, reissued, idLog, ops, clean,
              lastOp>>

unitVars == <<ann, annOp, chunker, emb, threads, locks, dim>>

vars == <<dataVars, concVars, mgrVars, unitVars>>

\* The persistent and in-memory state an operation works on, as one record;
\* alloc lists the ids GetNextHNSWId returned during the operation.
Store ==
    [documents |-> documents, hashes |-> hashes, chunks |-> chunks,
     docChunks |-> docChunks, metadata |-> metadata, graph |-> graph,
     isModified |-> isModified, diskGraph |-> diskGraph, alloc |-> << >>]

\* IndexMetadata as Storage.CreateIndex and indexImpl.Clear write it.
InitialMetadata == [NextHNSWId |-> 1, DocumentCount |-> 0, ChunkCount |-> 0]

\* ---------------------------------------------------------------- Storage
NoHash == << >>

\* StoreDocument without the write to the hashes bucket.
StoreDocumentNoHash(st, doc) == [st EXCEPT !.documents = Put(@, doc.URI, doc)]

\* Storage.StoreDocument: the document record, and its hash when present.
StoreDocument(st, doc) ==
    LET withDoc == [st EXCEPT !.documents = Put(@, doc.URI, doc)]
    IN  IF doc.Hash # NoHash
        THEN [withDoc EXCEPT !.hashes = Put(@, doc.URI, doc.Hash)]
        ELSE withDoc

\* DeleteDocument without the delete from the hashes bucket.
DeleteDocumentKeepHash(st, uri) ==
    [st EXCEPT !.documents = Del(@, uri), !.docChunks = Del(@, uri)]

\* Storage.DeleteDocument: document record, hash and doc->chunks mapping.
StorageDeleteDocument(st, uri) ==
    [st EXCEPT !.documents = Del(@, uri),
               !.hashes = Del(@, uri),
               !.docChunks = Del(@, uri)]

\* Storage.StoreChunk: the chunk record, then the id appended to the mapping
\* of its document unless already listed.
StoreChunk(st, chunk) ==
    LET existing == IF Has(st.docChunks, chunk.DocumentURI)
                    THEN st.docChunks[chunk.DocumentURI] ELSE << >>
        found == \E i \in 1..Len(existing) : existing[i] = chunk.ID
        chunkIDs == IF found THEN existing ELSE Append(existing, chunk.ID)
    IN  [st EXCEPT !.chunks = Put(@, chunk.ID, chunk),
                   !.docChunks = Put(@, chunk.DocumentURI, chunkIDs)]

\* The exchange sort at the end of Storage.GetChunksByDocument.
RECURSIVE SortByPosition(_)
SortByPosition(cs) ==
    IF Len(cs) <= 1 THEN cs
    ELSE LET m == CHOOSE i \in 1..Len(cs) :
                    /\ \A j \in 1..Len(cs) : cs[i].Position <= cs[j].Position
                    /\ \A j \in 1..(i - 1) : cs[j].Position # cs[i].Position
             rest == [k \in 1..(Len(cs) - 1) |-> IF k < m THEN cs[k] ELSE cs[k + 1]]
         IN  <<cs[m]>> \o SortByPosition(rest)

\* The chunk records the ids of a mapping still resolve to.
RECURSIVE Resolve(_, _)
Resolve(chunkBucket, ids) ==
    IF ids = << >> THEN << >>
    ELSE (IF Has(chunkBucket, Head(ids)) THEN <<chunkBucket[Head(ids)]>> ELSE << >>)
            \o Resolve(chunkBucket, Tail(ids))

\* GetChunksByDocument that resolves no chunk record.
GetChunksByDocumentNone(st, documentURI) == << >>

\* Storage.GetChunksByDocument
GetChunksByDocument(st, documentURI) ==
    IF ~Has(st.docChunks, documentURI) THEN << >>
    ELSE SortByPosition(Resolve(st.chunks, st.docChunks[documentURI]))

\* DeleteChunksByDocument that deletes nothing.
DeleteChunksByDocumentKeep(st, documentURI) == st

\* Storage.DeleteChunksByDocument: a no-op when the document has no mapping.
DeleteChunksByDocument(st, documentURI) ==
    IF ~Has(st.docChunks, documentURI) THEN st
    ELSE LET ids == {st.docChunks[documentURI][i] :
                        i \in 1..Len(st.docChunks[documentURI])}
         IN  [st EXCEPT !.chunks = [c \in (DOMAIN @) \ ids |-> @[c]],
                        !.docChunks = Del(@, documentURI)]

\* Storage.GetDocumentHash: the stored hash, or an error when there is none.
GetDocumentHash(st, uri) ==
    IF Has(st.hashes, uri) THEN [err |-> FALSE, hash |-> st.hashes[uri]]
    ELSE [err |-> TRUE, hash |-> NoHash]

\* GetNextHNSWId that stores the counter back as it read it.
GetNextHNSWIdNoIncrement(st) ==
    [id |-> st.metadata.NextHNSWId,
     st |-> [st EXCEPT !.alloc = Append(@, st.metadata.NextHNSWId)]]

\* GetNextHNSWId that returns the counter after the increment.
GetNextHNSWIdPostIncrement(st) ==
    [id |-> st.metadata.NextHNSWId + 1,
     st |-> [st EXCEPT !.metadata.NextHNSWId = @ + 1,
                       !.alloc = Append(@, st.metadata.NextHNSWId + 1)]]

\* Storage.GetNextHNSWId, on an existing index: one write transaction that
\* returns the stored counter and stores it incremented.
GetNextHNSWId(st) ==
    LET nextID == st.metadata.NextHNSWId
    IN  [id |-> nextID,
         st |-> [st EXCEPT !.metadata.NextHNSWId = nextID + 1,
                           !.alloc = Append(@, nextID)]]

\* Storage.SetIndexMetadata
SetIndexMetadata(st, m) == [st EXCEPT !.metadata = m]

\* Storage.ListDocuments
ListDocuments(st) == DOMAIN st.documents

\* -------------------------------------------------------------- HNSWIndex
\* HNSWIndex.Add that inserts without comparing the length.
HNSWAddUnchecked(st, dimensionOk, id) ==
    [err |-> FALSE, st |-> [st EXCEPT !.graph = @ \cup {id}, !.isModified = TRUE]]

\* HNSWIndex.Add: rejected when the vector length differs from the dimension.
HNSWAdd(st, dimensionOk, id) ==
    IF ~dimensionOk THEN [err |-> TRUE, st |-> st]
    ELSE [err |-> FALSE,
          st |-> [st EXCEPT !.graph = @ \cup {id}, !.isModified = TRUE]]

\* HNSWIndex.Delete
HNSWDelete(st, id) == [st EXCEPT !.graph = @ \ {id}, !.isModified = TRUE]

\* HNSWIndex.Clear
HNSWClear(st) == [st EXCEPT !.graph = {}, !.isModified = TRUE]

\* HNSWIndex.Save: os.Create may fail, and then nothing is written.
HNSWSave(st, ioOk) ==
    IF ~ioOk THEN [err |-> TRUE, st |-> st]
    ELSE [err |-> FALSE,
          st |-> [st EXCEPT !.diskGraph = st.graph, !.isModified = FALSE]]

\* HNSWIndex.AddBatch that inserts the nodes and leaves the flag alone.
HNSWAddBatchUnmarked(st, dimension, vectors, ids) ==
    IF Len(vectors) # Len(ids) THEN [err |-> "length", st |-> st]
    ELSE IF \E i \in 1..Len(vectors) : vectors[i] # dimension
    THEN [err |-> "dimension", st |-> st]
    ELSE [err |-> "nil",
          st |-> [st EXCEPT !.graph = @ \cup {ids[i] : i \in 1..Len(ids)}]]

\* HNSWIndex.AddBatch: the two lengths are compared, every vector's length
\* is compared with the dimension while the nodes are built, and only then
\* are the nodes inserted and the flag set.
HNSWAddBatch(st, dimension, vectors, ids) ==
    IF Len(vectors) # Len(ids) THEN [err |-> "length", st |-> st]
    ELSE IF \E i \in 1..Len(vectors) : vectors[i] # dimension
    THEN [err |-> "dimension", st |-> st]
    ELSE [err |-> "nil",
          st |-> [st EXCEPT !.graph = @ \cup {ids[i] : i \in 1..Len(ids)},
                            !.isModified = TRUE]]

\* HNSWIndex.load: os.Open or Import may fail; otherwise the graph is the
\* exported one and the flag is cleared.
HNSWLoad(st, ioOk) ==
    IF ~ioOk THEN [err |-> TRUE, st |-> st]
    ELSE [err |-> FALSE,
          st |-> [st EXCEPT !.graph = st.diskGraph, !.isModified = FALSE]]

\* HNSWIndex.Close: a modified index is exported; the flag is not written.
HNSWClose(st, ioOk) ==
    IF ~st.isModified THEN [err |-> FALSE, st |-> st]
    ELSE IF ~ioOk THEN [err |-> TRUE, st |-> st]
    ELSE [err |-> FALSE, st |-> [st EXCEPT !.diskGraph = st.graph]]

\* ------------------------------------------------------------ coordinator
\* The store loop of indexImpl.processChunks from chunk idx on: allocate an
\* id, store the chunk record, add the vector to the graph; the first failing
\* step ends the loop and leaves what was written.
RECURSIVE StoreChunksFrom(_, _, _, _)
StoreChunksFrom(st, cs, idx, dimensionOk) ==
    IF idx > Len(cs) THEN [err |-> "nil", st |-> st]
    ELSE LET got == GetNextHNSWId(st)
             storageChunk == [ID |-> cs[idx].ID, HNSWId |-> got.id,
                              DocumentURI |-> cs[idx].DocumentURI,
                              Text |-> cs[idx].Text,
                              Position |-> cs[idx].Position]
             stored == StoreChunk(got.st, storageChunk)
             added == HNSWAdd(stored, dimensionOk, got.id)
         IN  IF added.err THEN [err |-> "add", st |-> added.st]
             ELSE StoreChunksFrom(added.st, cs, idx + 1, dimensionOk)

\* indexImpl.processChunks: one GenerateEmbeddings call for all chunk texts
\* (no request, hence no failure, when there is no text), then the store loop.
\* mode is what the embedding service does for this document: "ok", "embed"
\* (the request fails) or "add" (vectors of another length than the index
\* dimension come back).
processChunks(st, cs, mode) ==
    IF mode = "embed" /\ Len(cs) > 0 THEN [err |-> "embed", st |-> st]
    ELSE StoreChunksFrom(st, cs, 1, mode # "add")

\* indexImpl.processDocument
processDocument(st, doc, mode) ==
    LET storageDoc == [URI |-> doc.URI, Title |-> doc.Title,
                       Content |-> doc.Content,
                       Hash |-> computeDocumentHash(doc)]
        s1 == StoreDocument(st, storageDoc)
        s2 == DeleteChunksByDocument(s1, doc.URI)
        cs == ChunkDocument(doc.URI, doc.Content)
    IN  processChunks(s2, cs, mode)

\* Triage that looks a document up by its content hash, under any URI.
TriageByContent(st, doc) ==
    IF \E u \in DOMAIN st.hashes : st.hashes[u] = computeDocumentHash(doc)
    THEN "unchanged"
    ELSE IF Has(st.hashes, doc.URI) THEN "updated" ELSE "new"

\* Phase 1 of indexImpl.AddDocumentBatch for one document.
Triage(st, doc) ==
    LET existing == GetDocumentHash(st, doc.URI)
    IN  IF existing.err THEN "new"
        ELSE IF existing.hash # computeDocumentHash(doc) THEN "updated"
        ELSE "unchanged"

\* AddOptions.ForceUpdate: a document with a stored hash is never unchanged.
TriageWithOptions(st, doc, forceUpdate) ==
    IF forceUpdate /\ Triage(st, doc) = "unchanged" THEN "updated"
    ELSE Triage(st, doc)

\* Phase 1 over the batch: every document is classified against the hashes
\* stored before any document of the batch is processed.
Classify(st, docs, forceUpdate) ==
    [i \in 1..Len(docs) |-> TriageWithOptions(st, docs[i], forceUpdate)]

\* A counter that counts a class once however many documents have it.
CountOfOnce(classes, c) ==
    IF \E i \in 1..Len(classes) : classes[i] = c THEN 1 ELSE 0

\* The counters of phase 1: one increment per document of the class.
CountOf(classes, c) == Cardinality({i \in 1..Len(classes) : classes[i] = c})

\* Phase 2 that returns at the first failed document.
RECURSIVE ProcessFromAbort(_, _, _, _, _, _)
ProcessFromAbort(st, docs, classes, modes, i, res) ==
    IF i > Len(docs) THEN [st |-> st, res |-> res]
    ELSE IF classes[i] = "unchanged"
         THEN ProcessFromAbort(st, docs, classes, modes, i + 1, res)
    ELSE LET done == processDocument(st, docs[i], modes[i])
             seen == [res EXCEPT !.Order = Append(@, docs[i].URI)]
         IN  IF done.err # "nil"
             THEN [st |-> done.st,
                   res |-> [seen EXCEPT !.Err = done.err,
                                        !.FailedURIs = Put(@, docs[i].URI, done.err)]]
             ELSE ProcessFromAbort(done.st, docs, classes, modes, i + 1,
                      [seen EXCEPT !.ProcessedChunks =
                          @ + Len(GetChunksByDocument(done.st, docs[i].URI))])

\* Phase 2 of indexImpl.AddDocumentBatch from position i of the batch on: a
\* failed document is recorded in FailedURIs and the loop continues.
RECURSIVE ProcessFrom(_, _, _, _, _, _)
ProcessFrom(st, docs, classes, modes, i, res) ==
    IF i > Len(docs) THEN [st |-> st, res |-> res]
    ELSE IF classes[i] = "unchanged"
         THEN ProcessFrom(st, docs, classes, modes, i + 1, res)
    ELSE LET done == processDocument(st, docs[i], modes[i])
             seen == [res EXCEPT !.Order = Append(@, docs[i].URI)]
         IN  IF done.err # "nil"
             THEN ProcessFrom(done.st, docs, classes, modes, i + 1,
                      [seen EXCEPT !.FailedURIs = Put(@, docs[i].URI, done.err)])
             ELSE ProcessFrom(done.st, docs, classes, modes, i + 1,
                      [seen EXCEPT !.ProcessedChunks =
                          @ + Len(GetChunksByDocument(done.st, docs[i].URI))])

\* Phase 3 of indexImpl.AddDocumentBatch: autosave, then the metadata
\* read-modify-write; a failed save returns before the metadata is written.
Finalize(st, res, saveOk) ==
    LET saved == IF autoSave THEN HNSWSave(st, saveOk)
                 ELSE [err |-> FALSE, st |-> st]
        m == [saved.st.metadata EXCEPT
                 !.DocumentCount = res.NewDocuments + res.UpdatedDocuments,
                 !.ChunkCount = res.ProcessedChunks]
    IN  IF saved.err THEN [st |-> saved.st, res |-> [res EXCEPT !.Err = "save"]]
        ELSE [st |-> SetIndexMetadata(saved.st, m), res |-> res]

\* indexImpl.AddDocumentBatch: the BatchResult (with the per-document classes
\* and the order of processDocument calls kept beside it) and the state left.
AddDocumentBatch(st, docs, forceUpdate, modes, saveOk) ==
    LET classes == Classify(st, docs, forceUpdate)
        result == [TotalDocuments |-> Len(docs),
                   NewDocuments |-> CountOf(classes, "new"),
                   UpdatedDocuments |-> CountOf(classes, "updated"),
                   UnchangedDocuments |-> CountOf(classes, "unchanged"),
                   ProcessedChunks |-> 0,
                   FailedURIs |-> EmptyBucket,
                   Err |-> "nil", Classes |-> classes, Order |-> << >>]
    IN  IF \A i \in 1..Len(docs) : classes[i] = "unchanged"
        THEN [st |-> st, res |-> result]
        ELSE LET processed == ProcessFrom(st, docs, classes, modes, 1, result)
             IN  Finalize(processed.st, processed.res, saveOk)

\* The loop of indexImpl.DeleteDocument over the chunks it enumerated.
RECURSIVE DeleteVectors(_, _)
DeleteVectors(st, cs) ==
    IF cs = << >> THEN st
    ELSE DeleteVectors(HNSWDelete(st, Head(cs).HNSWId), Tail(cs))

\* indexImpl.DeleteDocument: vectors of the enumerated chunks, then the
\* document record (with hash and mapping), then the chunk records, then
\* the autosave, whose error is dropped.
DeleteDocumentImpl(st, uri, saveOk) ==
    LET cs == GetChunksByDocument(st, uri)
        s1 == DeleteVectors(st, cs)
        s2 == StorageDeleteDocument(s1, uri)
        s3 == DeleteChunksByDocument(s2, uri)
    IN  IF autoSave THEN HNSWSave(s3, saveOk).st ELSE s3

\* The loop of indexImpl.Clear over the listed documents.
RECURSIVE DeleteAll(_, _)
DeleteAll(st, uris) ==
    IF uris = {} THEN st
    ELSE LET uri == CHOOSE u \in uris : TRUE
         IN  DeleteAll(DeleteChunksByDocument(StorageDeleteDocument(st, uri), uri),
                       uris \ {uri})

\* Clear that empties the graph and resets the metadata only.
ClearGraphOnly(st) == SetIndexMetadata(HNSWClear(st), InitialMetadata)

\* indexImpl.Clear
ClearImpl(st) ==
    LET s1 == HNSWClear(st)
        s2 == DeleteAll(s1, ListDocuments(s1))
    IN  SetIndexMetadata(s2, InitialMetadata)

\* ---------------------------------------------------------------- actions
NoMetadata == [NextHNSWId |-> 0, DocumentCount |-> 0, ChunkCount |-> 0]

EmptyResult ==
    [TotalDocuments |-> 0, NewDocuments |-> 0, UpdatedDocuments |-> 0,
     UnchangedDocuments |-> 0, ProcessedChunks |-> 0, FailedURIs |-> EmptyBucket,
     Err |-> "nil", Classes |-> << >>, Order |-> << >>]

Succeeded(op) ==
    op.kind = "ingest" /\ op.res.Err = "nil" /\ DOMAIN op.res.FailedURIs = {}

\* The history record of a completed operation.  docs, force and modes are
\* the inputs of an ingest and res its BatchResult; a clear carries the batch
\* of the ingest it directly followed.  prevKind, prevSame, prevOk and
\* prevFailed describe the operation before: its kind, whether it concerned
\* the same batch, whether it was an ingest without failure, and the URIs it
\* reported failed.
Op(kind, docs, force, modes, res, uri, id) ==
    [kind |-> kind, docs |-> docs, force |-> force, modes |-> modes,
     res |-> res, uri |-> uri, id |-> id,
     prevKind |-> lastOp.kind,
     prevSame |-> lastOp.kind \in {"ingest", "clear"} /\ lastOp.docs = docs,
     prevOk |-> Succeeded(lastOp),
     prevFailed |-> DOMAIN lastOp.res.FailedURIs]

Range(seq) == {seq[i] : i \in 1..Len(seq)}

\* Writes the state an operation left back to the variables and extends the
\* histories with the ids it allocated.
Commit(st) ==
    /\ documents' = st.documents
    /\ hashes' = st.hashes
    /\ chunks' = st.chunks
    /\ docChunks' = st.docChunks
    /\ metadata' = st.metadata
    /\ graph' = st.graph
    /\ isModified' = st.isModified
    /\ diskGraph' = st.diskGraph
    /\ issued' = issued \cup Range(st.alloc)
    /\ reissued' = (reissued \/ Range(st.alloc) \cap issued # {})
    /\ ops' = ops + 1

\* The goroutines that call AddDocumentBatch on the same index.
Workers == {1, 2}

\* A goroutine outside AddDocumentBatch.
IdleWorker ==
    [pc |-> "idle", docs |-> << >>, classes |-> << >>, i |-> 0, cs |-> << >>,
     id |-> 0, processed |-> 0, meta |-> NoMetadata, runs |-> 0]

\* No AddDocumentBatch call is in flight.
NoWorkers == workers = [w \in Workers |-> IdleWorker]

\* The index names callers use.
Names == {"a", "b"}

\* The history record of a manager or store call: its kind, the index name,
\* the error returned, the names ListIndexes returned; mark follows an
\* ingest through close, process end and reopen, and graphs keeps the
\* in-memory graphs the process had when it ended.
NoManagerOp ==
    [kind |-> "none", name |-> "", err |-> "nil", names |-> {},
     mark |-> "none", graphs |-> EmptyBucket]

\* No process has opened the data path yet and the data path is empty.
\* No HNSWIndex is in use on its own.
\* A goroutine between two calls, and a sync.RWMutex nobody holds or awaits.
IdleThread == [op |-> "idle", id |-> 0, ok |-> TRUE, pc |-> 0]
FreeLock == [writer |-> 0, readers |-> [t \in 1..MaxThreads |-> 0], waiting |-> {}]
\* IndexManager.mu, indexManagerImpl.mu, indexImpl.mu and HNSWIndex.mu
LockNames == {"IndexManager.mu", "indexManagerImpl.mu", "indexImpl.mu",
              "HNSWIndex.mu"}
NoAnnOp == [kind |-> "none", vector |-> 0, id |-> 0, k |-> 0, err |-> "nil",
            results |-> {}]
NoUnits ==
    /\ ann = [graph |-> {}, isModified |-> FALSE, diskGraph |-> {},
              onDisk |-> FALSE]
    /\ annOp = NoAnnOp
    /\ chunker = [c |-> [err |-> "none"], called |-> FALSE, text |-> << >>,
                  chunks |-> << >>]
    /\ emb = [mode |-> "none", texts |-> << >>, W |-> 0, pc |-> "idle", i |-> 0,
              jobs |-> << >>, jobsClosed |-> FALSE,
              wk |-> [w \in {} |-> 0],
              results |-> << >>, resultsClosed |-> FALSE,
              embeddings |-> << >>, order |-> << >>,
              ret |-> [kind |-> "pending", index |-> 0, embeddings |-> << >>]]
    /\ threads = [t \in 1..MaxThreads |-> IdleThread]
    /\ locks = [l \in LockNames |-> FreeLock]
    /\ dim = [model |-> "", alive |-> FALSE, embedderDimension |-> 0,
              registered |-> {},
              hnswDimension |-> [n \in Names |-> 0],
              createdDimension |-> [n \in Names |-> 0],
              accepted |-> [n \in Names |-> {}],
              op |-> [kind |-> "none", name |-> "", err |-> "nil"]]

NoManager ==
    /\ alive = FALSE
    /\ dbOpen = FALSE
    /\ registry = {}
    /\ buckets = EmptyBucket
    /\ files = [n \in Names |-> {}]
    /\ implIndexes = EmptyBucket
    /\ wrapperIndexes = {}
    /\ mgrOps = 0
    /\ mgrOp = NoManagerOp

Init ==
    /\ NoWorkers
    /\ NoManager
    /\ NoUnits
    /\ created = FALSE
    /\ autoSave \in BOOLEAN
    /\ documents = EmptyBucket
    /\ hashes = EmptyBucket
    /\ chunks = EmptyBucket
    /\ docChunks = EmptyBucket
    /\ metadata = NoMetadata
    /\ graph = {}
    /\ isModified = FALSE
    /\ diskGraph = {}
    /\ issued = {}
    /\ reissued = FALSE
    /\ idLog = << >>
    /\ ops = 0
    /\ clean = TRUE
    /\ lastOp = [kind |-> "none", docs |-> << >>, force |-> FALSE,
                 modes |-> << >>, res |-> EmptyResult, uri |-> "", id |-> 0,
                 prevKind |-> "none", prevSame |-> FALSE, prevOk |-> FALSE,
                 prevFailed |-> {}]

\* indexManagerImpl.CreateIndex with Storage.CreateIndex: the registry entry,
\* the five empty buckets, the initial metadata and a new HNSW graph.
CreateIndex ==
    /\ ~created
    /\ created' = TRUE
    /\ metadata' = InitialMetadata
    /\ lastOp' = Op("create", << >>, FALSE, << >>, EmptyResult, "", 0)
    /\ UNCHANGED <<autoSave, documents, hashes, chunks, docChunks, graph,
                   isModified, diskGraph, issued, reissued, idLog, ops, clean>>
    /\ UNCHANGED <<concVars, mgrVars, unitVars>>

\* The ids a batch can need at most: one per chunk of each document.
RECURSIVE Demand(_)
Demand(docs) ==
    IF docs = << >> THEN 0
    ELSE Len(Chunk(Head(docs).Content)) + Demand(Tail(docs))

\* Index.AddDocumentBatch / AddDocumentBatchWithOptions
Ingest(docs, forceUpdate, modes, saveOk) ==
    /\ created
    /\ ops < MaxOps
    /\ metadata.NextHNSWId + Demand(docs) <= MaxId + 1
    /\ LET out == AddDocumentBatch(Store, docs, forceUpdate, modes, saveOk)
       IN  /\ Commit(out.st)
           /\ idLog' = idLog \o out.st.alloc
           /\ lastOp' = Op("ingest", docs, forceUpdate, modes, out.res, "", 0)
           /\ clean' = (clean /\ out.res.Err = "nil"
                              /\ DOMAIN out.res.FailedURIs = {})
    /\ UNCHANGED <<created, autoSave, concVars, mgrVars, unitVars>>

\* Index.DeleteDocument
DeleteDocument(uri, saveOk) ==
    /\ created
    /\ ops < MaxOps
    /\ Commit(DeleteDocumentImpl(Store, uri, saveOk))
    /\ lastOp' = Op("delete", << >>, FALSE, << >>, EmptyResult, uri, 0)
    /\ UNCHANGED <<created, autoSave, idLog, clean, concVars, mgrVars, unitVars>>

\* Index.Clear
Clear ==
    /\ created
    /\ ops < MaxOps
    /\ Commit(ClearImpl(Store))
    /\ idLog' = << >>
    /\ lastOp' = Op("clear", IF lastOp.kind = "ingest" THEN lastOp.docs ELSE << >>,
                    FALSE, << >>, EmptyResult, "", 0)
    /\ UNCHANGED <<created, autoSave, clean, concVars, mgrVars, unitVars>>

\* Process restart: NewIndexManagerImpl reopens the store and loadIndexes
\* builds the HNSW wrapper, which loads index.hnsw when the file exists.
Reopen ==
    /\ created
    /\ ops < MaxOps
    /\ graph' = diskGraph
    /\ isModified' = FALSE
    /\ ops' = ops + 1
    /\ clean' = FALSE
    /\ lastOp' = Op("reopen", << >>, FALSE, << >>, EmptyResult, "", 0)
    /\ UNCHANGED <<created, autoSave, documents, hashes, chunks, docChunks,
                   metadata, diskGraph, issued, reissued, idLog, concVars, mgrVars, unitVars>>

\* Storage.GetNextHNSWId called on its own: on a name with no metadata bucket
\* the transaction fails and is rolled back.
NextId ==
    IF ~created
    THEN /\ lastOp' = Op("nextid-failed", << >>, FALSE, << >>, EmptyResult, "", 0)
         /\ UNCHANGED <<created, autoSave, documents, hashes, chunks, docChunks,
                        metadata, graph, isModified, diskGraph, issued, reissued,
                        idLog, ops, clean, concVars, mgrVars, unitVars>>
    ELSE /\ ops < MaxOps
         /\ metadata.NextHNSWId <= MaxId
         /\ LET got == GetNextHNSWId(Store)
            IN  /\ Commit(got.st)
                /\ idLog' = Append(idLog, got.id)
                /\ lastOp' = Op("nextid", << >>, FALSE, << >>, EmptyResult, "", got.id)
                /\ clean' = FALSE
         /\ UNCHANGED <<created, autoSave, concVars, mgrVars, unitVars>>

\* ForceUpdate is tried on the batches it can affect: those with a document
\* whose stored hash is current.
ForceChoices(docs) ==
    IF \E i \in 1..Len(docs) : Triage(Store, docs[i]) = "unchanged"
    THEN BOOLEAN ELSE {FALSE}

Next ==
    \/ CreateIndex
    \/ \E docs \in Batches, saveOk \in SaveOutcomes :
          \E forceUpdate \in ForceChoices(docs), modes \in ModesFor(docs) :
             Ingest(docs, forceUpdate, modes, saveOk)
    \/ \E uri \in URIs, saveOk \in SaveOutcomes : DeleteDocument(uri, saveOk)
    \/ Clear
    \/ Reopen
    \/ NextId

Spec == Init /\ [][Next]_vars

\* ------------------------------------------------------- cancellable ingest
\* Index.AddDocumentBatch(ctx, docs, progress) hands ctx to the coordinator.
\* The token is set while the cancelAfter-th enqueued document of the batch
\* is being processed; cancelAfter = 0 is a token that stays unset.

\* Phase 2 that never looks at the token.
RECURSIVE ProcessIgnoringCancel(_, _, _, _, _, _, _)
ProcessIgnoringCancel(st, docs, classes, modes, i, res, cancelAfter) ==
    IF i > Len(docs) THEN [st |-> st, res |-> res]
    ELSE IF classes[i] = "unchanged"
         THEN ProcessIgnoringCancel(st, docs, classes, modes, i + 1, res,
                                    cancelAfter)
    ELSE LET done == processDocument(st, docs[i], modes[i])
             seen == [res EXCEPT !.Order = Append(@, docs[i].URI)]
         IN  IF done.err # "nil"
             THEN ProcessIgnoringCancel(done.st, docs, classes, modes, i + 1,
                      [seen EXCEPT !.FailedURIs = Put(@, docs[i].URI, done.err)],
                      cancelAfter)
             ELSE ProcessIgnoringCancel(done.st, docs, classes, modes, i + 1,
                      [seen EXCEPT !.ProcessedChunks =
                          @ + Len(GetChunksByDocument(done.st, docs[i].URI))],
                      cancelAfter)

\* Phase 2 with the token checked between documents: once it is set no
\* further enqueued document is started.
RECURSIVE ProcessUntilCancelled(_, _, _, _, _, _, _)
ProcessUntilCancelled(st, docs, classes, modes, i, res, cancelAfter) ==
    IF i > Len(docs) THEN [st |-> st, res |-> res]
    ELSE IF cancelAfter > 0 /\ Len(res.Order) >= cancelAfter
         THEN [st |-> st, res |-> res]
    ELSE IF classes[i] = "unchanged"
         THEN ProcessUntilCancelled(st, docs, classes, modes, i + 1, res,
                                    cancelAfter)
    ELSE LET done == processDocument(st, docs[i], modes[i])
             seen == [res EXCEPT !.Order = Append(@, docs[i].URI)]
         IN  IF done.err # "nil"
             THEN ProcessUntilCancelled(done.st, docs, classes, modes, i + 1,
                      [seen EXCEPT !.FailedURIs = Put(@, docs[i].URI, done.err)],
                      cancelAfter)
             ELSE ProcessUntilCancelled(done.st, docs, classes, modes, i + 1,
                      [seen EXCEPT !.ProcessedChunks =
                          @ + Len(GetChunksByDocument(done.st, docs[i].URI))],
                      cancelAfter)

\* AddDocumentBatch with a cancel token: the three phases, the second one
\* ended by the token.  CancelAfter is kept beside the BatchResult.
AddDocumentBatchCtx(st, docs, modes, saveOk, cancelAfter) ==
    LET classes == Classify(st, docs, FALSE)
        result == [TotalDocuments |-> Len(docs),
                   NewDocuments |-> CountOf(classes, "new"),
                   UpdatedDocuments |-> CountOf(classes, "updated"),
                   UnchangedDocuments |-> CountOf(classes, "unchanged"),
                   ProcessedChunks |-> 0,
                   FailedURIs |-> EmptyBucket,
                   Err |-> "nil", Classes |-> classes, Order |-> << >>,
                   CancelAfter |-> cancelAfter]
    IN  IF \A i \in 1..Len(docs) : classes[i] = "unchanged"
        THEN [st |-> st, res |-> result]
        ELSE LET processed == ProcessUntilCancelled(st, docs, classes, modes, 1,
                                                    result, cancelAfter)
             IN  Finalize(processed.st, processed.res, saveOk)

\* Index.AddDocumentBatch(ctx, docs, progress)
IngestCancellable(docs, modes, saveOk, cancelAfter) ==
    /\ created
    /\ ops < MaxCancelOps
    /\ metadata.NextHNSWId + Demand(docs) <= MaxId + 1
    /\ LET out == AddDocumentBatchCtx(Store, docs, modes, saveOk, cancelAfter)
       IN  /\ Commit(out.st)
           /\ idLog' = idLog \o out.st.alloc
           /\ lastOp' = Op("ingest", docs, FALSE, modes, out.res, "", 0)
           /\ clean' = (clean /\ out.res.Err = "nil"
                              /\ DOMAIN out.res.FailedURIs = {})
    /\ UNCHANGED <<created, autoSave, concVars, mgrVars, unitVars>>

NextCancel ==
    \/ CreateIndex
    \/ \E docs \in Batches, saveOk \in SaveOutcomes :
          \E modes \in ModesFor(docs), cancelAfter \in 0..Len(docs) :
             IngestCancellable(docs, modes, saveOk, cancelAfter)

SpecCancel == Init /\ [][NextCancel]_vars

\* ------------------------------------------- concurrent AddDocumentBatch
\* indexImpl.AddDocumentBatch takes no lock (indexImpl.mu is never locked), so
\* two calls on one index interleave between their storage transactions and
\* HNSW wrapper calls.  One action is one such call of one goroutine.

\* Writes back the state one transaction left, with the ids it allocated.
CommitTransaction(st) ==
    /\ documents' = st.documents
    /\ hashes' = st.hashes
    /\ chunks' = st.chunks
    /\ docChunks' = st.docChunks
    /\ metadata' = st.metadata
    /\ graph' = st.graph
    /\ isModified' = st.isModified
    /\ diskGraph' = st.diskGraph
    /\ issued' = issued \cup Range(st.alloc)
    /\ reissued' = (reissued \/ Range(st.alloc) \cap issued # {})
    /\ idLog' = idLog \o st.alloc

\* The batches the goroutines submit: one document each, under the same URI
\* or under two URIs, of one chunk or of two.
ConcBatches == {<<d>> : d \in {x \in Docs : x.URI = "u1" \/ x.Content = "L"}}

\* The first position from `from` on of a document to process, 0 if none.
NextEnqueued(classes, from) ==
    LET later == {j \in from..Len(classes) : classes[j] # "unchanged"}
    IN  IF later = {} THEN 0 ELSE CHOOSE j \in later : \A k \in later : j <= k

Goto(w, next) == workers' = [workers EXCEPT ![w] = next]

\* The state an index has after CreateIndex, with no call in flight.
InitConc ==
    /\ NoWorkers
    /\ NoManager
    /\ NoUnits
    /\ created = TRUE
    /\ autoSave \in BOOLEAN
    /\ documents = EmptyBucket
    /\ hashes = EmptyBucket
    /\ chunks = EmptyBucket
    /\ docChunks = EmptyBucket
    /\ metadata = InitialMetadata
    /\ graph = {}
    /\ isModified = FALSE
    /\ diskGraph = {}
    /\ issued = {}
    /\ reissued = FALSE
    /\ idLog = << >>
    /\ ops = 0
    /\ clean = TRUE
    /\ lastOp = [kind |-> "create", docs |-> << >>, force |-> FALSE,
                 modes |-> << >>, res |-> EmptyResult, uri |-> "", id |-> 0,
                 prevKind |-> "none", prevSame |-> FALSE, prevOk |-> FALSE,
                 prevFailed |-> {}]

ConcUnchanged ==
    UNCHANGED <<created, autoSave, ops, clean, lastOp, mgrVars, unitVars>>

DataUnchanged ==
    UNCHANGED <<documents, hashes, chunks, docChunks, metadata, graph,
                isModified, diskGraph, issued, reissued, idLog>>

\* A goroutine enters AddDocumentBatch.
ConcBegin(w, docs) ==
    /\ workers[w].pc = "idle"
    /\ workers[w].runs < MaxRuns
    /\ Goto(w, [IdleWorker EXCEPT !.pc = "triage", !.docs = docs, !.i = 1,
                                  !.runs = workers[w].runs + 1])
    /\ DataUnchanged /\ ConcUnchanged

\* Phase 1 for the next document: GetDocumentHash and the comparison; after
\* the last one, the early return when nothing is to process.
ConcTriage(w) ==
    LET me == workers[w]
        classes == Append(me.classes, Triage(Store, me.docs[me.i]))
        first == NextEnqueued(classes, 1)
    IN  /\ me.pc = "triage"
        /\ Goto(w, IF me.i < Len(me.docs)
                   THEN [me EXCEPT !.classes = classes, !.i = me.i + 1]
                   ELSE IF first = 0
                   THEN [IdleWorker EXCEPT !.runs = me.runs]
                   ELSE [me EXCEPT !.classes = classes, !.i = first,
                                   !.pc = "store"])
        /\ DataUnchanged /\ ConcUnchanged

\* processDocument: StoreDocument with the hash.
ConcStoreDocument(w) ==
    LET me == workers[w]
        doc == me.docs[me.i]
    IN  /\ me.pc = "store"
        /\ CommitTransaction(StoreDocument(Store,
              [URI |-> doc.URI, Title |-> doc.Title, Content |-> doc.Content,
               Hash |-> computeDocumentHash(doc)]))
        /\ Goto(w, [me EXCEPT !.pc = "delchunks"])
        /\ ConcUnchanged

\* processDocument: DeleteChunksByDocument, then ChunkDocument and the
\* embedding request, which touch no shared state.
ConcDeleteChunks(w) ==
    LET me == workers[w]
        doc == me.docs[me.i]
        cs == ChunkDocument(doc.URI, doc.Content)
    IN  /\ me.pc = "delchunks"
        /\ CommitTransaction(DeleteChunksByDocument(Store, doc.URI))
        /\ Goto(w, [me EXCEPT !.cs = cs,
                              !.pc = IF cs = << >> THEN "count" ELSE "nextid"])
        /\ ConcUnchanged

\* processChunks: GetNextHNSWId for the next chunk.
ConcNextId(w) ==
    LET me == workers[w]
        got == GetNextHNSWId(Store)
    IN  /\ me.pc = "nextid"
        /\ metadata.NextHNSWId <= MaxId
        /\ CommitTransaction(got.st)
        /\ Goto(w, [me EXCEPT !.id = got.id, !.pc = "storechunk"])
        /\ ConcUnchanged

\* processChunks: StoreChunk with the allocated id.
ConcStoreChunk(w) ==
    LET me == workers[w]
        c == Head(me.cs)
    IN  /\ me.pc = "storechunk"
        /\ CommitTransaction(StoreChunk(Store,
              [ID |-> c.ID, HNSWId |-> me.id, DocumentURI |-> c.DocumentURI,
               Text |-> c.Text, Position |-> c.Position]))
        /\ Goto(w, [me EXCEPT !.pc = "add"])
        /\ ConcUnchanged

\* processChunks: hnswIndex.Add of the vector, then the next chunk.
ConcAdd(w) ==
    LET me == workers[w]
    IN  /\ me.pc = "add"
        /\ CommitTransaction(HNSWAdd(Store, TRUE, me.id).st)
        /\ Goto(w, [me EXCEPT !.cs = Tail(me.cs),
                              !.pc = IF Tail(me.cs) = << >> THEN "count"
                                     ELSE "nextid"])
        /\ ConcUnchanged

\* Phase 2: the chunk count read back, then the next document to process.
ConcCount(w) ==
    LET me == workers[w]
        n == Len(GetChunksByDocument(Store, me.docs[me.i].URI))
        next == NextEnqueued(me.classes, me.i + 1)
    IN  /\ me.pc = "count"
        /\ Goto(w, IF next = 0
                   THEN [me EXCEPT !.processed = me.processed + n, !.pc = "save"]
                   ELSE [me EXCEPT !.processed = me.processed + n, !.i = next,
                                   !.pc = "store"])
        /\ DataUnchanged /\ ConcUnchanged

\* Phase 3: the autosave.
ConcSave(w) ==
    LET me == workers[w]
    IN  /\ me.pc = "save"
        /\ CommitTransaction(IF autoSave THEN HNSWSave(Store, TRUE).st ELSE Store)
        /\ Goto(w, [me EXCEPT !.pc = "getmeta"])
        /\ ConcUnchanged

\* Phase 3: GetIndexMetadata, a read transaction of its own.
ConcGetMetadata(w) ==
    LET me == workers[w]
    IN  /\ me.pc = "getmeta"
        /\ Goto(w, [me EXCEPT !.meta = metadata, !.pc = "setmeta"])
        /\ DataUnchanged /\ ConcUnchanged

\* Phase 3: SetIndexMetadata writes the copy read before, counts updated.
ConcSetMetadata(w) ==
    LET me == workers[w]
        m == [me.meta EXCEPT
                 !.DocumentCount = CountOf(me.classes, "new")
                                     + CountOf(me.classes, "updated"),
                 !.ChunkCount = me.processed]
    IN  /\ me.pc = "setmeta"
        /\ CommitTransaction(SetIndexMetadata(Store, m))
        /\ Goto(w, [IdleWorker EXCEPT !.runs = me.runs])
        /\ ConcUnchanged

NextConc ==
    \E w \in Workers :
        \/ \E docs \in ConcBatches : ConcBegin(w, docs)
        \/ ConcTriage(w)
        \/ ConcStoreDocument(w)
        \/ ConcDeleteChunks(w)
        \/ ConcNextId(w)
        \/ ConcStoreChunk(w)
        \/ ConcAdd(w)
        \/ ConcCount(w)
        \/ ConcSave(w)
        \/ ConcGetMetadata(w)
        \/ ConcSetMetadata(w)

SpecConc == InitConc /\ [][NextConc]_vars

\* ------------------------------------------------------- index manager
\* The IndexManager wrapper with its indexManagerImpl, the Storage registry
\* and the per-index HNSW files, for several index names.

\* The bbolt database: the _indexes registry and the per-index buckets.
DB == [registry |-> registry, buckets |-> buckets]

\* The five per-index buckets as CreateBucketIfNotExists makes them.
EmptyBuckets ==
    [documents |-> EmptyBucket, hashes |-> EmptyBucket, chunks |-> EmptyBucket,
     docChunks |-> EmptyBucket, metadata |-> NoMetadata]

\* CreateIndex that registers and initialises without looking at the registry.
StorageCreateIndexOverwrite(db, name) ==
    [err |-> "nil",
     db |-> [registry |-> db.registry \cup {name},
             buckets |-> Put(db.buckets, name,
                             [EmptyBuckets EXCEPT !.metadata = InitialMetadata])]]

\* Storage.CreateIndex: one write transaction.
StorageCreateIndex(db, name) ==
    IF name \in db.registry THEN [err |-> "exists", db |-> db]
    ELSE LET existing == IF Has(db.buckets, name) THEN db.buckets[name]
                         ELSE EmptyBuckets
         IN  [err |-> "nil",
              db |-> [registry |-> db.registry \cup {name},
                      buckets |-> Put(db.buckets, name,
                          [existing EXCEPT !.metadata = InitialMetadata])]]

\* Storage.DeleteIndex: one write transaction.
StorageDeleteIndex(db, name) ==
    IF name \notin db.registry THEN [err |-> "notfound", db |-> db]
    ELSE [err |-> "nil",
          db |-> [registry |-> db.registry \ {name},
                  buckets |-> Del(db.buckets, name)]]

\* Storage.ListIndexes
StorageListIndexes(db) == db.registry

\* indexer.NewHNSWIndex on the path of an index: the graph of the file when
\* the file exists, an empty graph otherwise.
NewHNSWIndex(name) == [graph |-> files[name], isModified |-> FALSE]

\* The in-memory graphs of the running manager.
Graphs == [n \in DOMAIN implIndexes |-> implIndexes[n].graph]

MgrOp(kind, name, err, names, mark, graphs) ==
    [kind |-> kind, name |-> name, err |-> err, names |-> names,
     mark |-> mark, graphs |-> graphs]

\* The state of one index as the coordinator operations take it.
IndexStore(name) ==
    [documents |-> buckets[name].documents, hashes |-> buckets[name].hashes,
     chunks |-> buckets[name].chunks, docChunks |-> buckets[name].docChunks,
     metadata |-> buckets[name].metadata, graph |-> implIndexes[name].graph,
     isModified |-> implIndexes[name].isModified, diskGraph |-> files[name],
     alloc |-> << >>]

\* The batches ingested through the manager: one document under one URI.
MgrBatches == {<<d>> : d \in {x \in Docs : x.URI = "u1"}}

\* NewIndexManager on an empty data path.
InitMgr ==
    /\ NoWorkers
    /\ NoUnits
    /\ created = FALSE
    /\ autoSave \in BOOLEAN
    /\ documents = EmptyBucket
    /\ hashes = EmptyBucket
    /\ chunks = EmptyBucket
    /\ docChunks = EmptyBucket
    /\ metadata = NoMetadata
    /\ graph = {}
    /\ isModified = FALSE
    /\ diskGraph = {}
    /\ issued = {}
    /\ reissued = FALSE
    /\ idLog = << >>
    /\ ops = 0
    /\ clean = TRUE
    /\ lastOp = [kind |-> "none", docs |-> << >>, force |-> FALSE,
                 modes |-> << >>, res |-> EmptyResult, uri |-> "", id |-> 0,
                 prevKind |-> "none", prevSame |-> FALSE, prevOk |-> FALSE,
                 prevFailed |-> {}]
    /\ alive = TRUE
    /\ dbOpen = TRUE
    /\ registry = {}
    /\ buckets = EmptyBucket
    /\ files = [n \in Names |-> {}]
    /\ implIndexes = EmptyBucket
    /\ wrapperIndexes = {}
    /\ mgrOps = 0
    /\ mgrOp = MgrOp("open", "", "nil", {}, "none", EmptyBucket)

MgrUnchanged == UNCHANGED <<dataVars, concVars, unitVars>>

\* NewIndexManager in a new process: NewStorage opens the database,
\* loadIndexes builds an HNSW wrapper per registered name and the wrapper map
\* is filled from them.  bbolt.Open waits for the lock of the database file,
\* so the call returns only when no handle on the file is open.
NewIndexManager ==
    /\ ~alive /\ ~dbOpen
    /\ mgrOps < MaxMgrOps
    /\ alive' = TRUE
    /\ dbOpen' = TRUE
    /\ implIndexes' = [n \in StorageListIndexes(DB) |-> NewHNSWIndex(n)]
    /\ wrapperIndexes' = StorageListIndexes(DB)
    /\ mgrOps' = mgrOps + 1
    /\ mgrOp' = MgrOp("open", "", "nil", {},
                      IF mgrOp.mark = "exited" THEN "reopened" ELSE "none",
                      mgrOp.graphs)
    /\ UNCHANGED <<registry, buckets, files>>
    /\ MgrUnchanged

\* IndexManager.CreateIndex -> indexManagerImpl.CreateIndex, under im.mu.
ManagerCreateIndex(name) ==
    /\ alive
    /\ mgrOps < MaxMgrOps
    /\ mgrOps' = mgrOps + 1
    /\ LET made == StorageCreateIndex(DB, name)
       IN  IF Has(implIndexes, name)
           THEN /\ mgrOp' = MgrOp("mgr-create", name, "exists", {}, "none", EmptyBucket)
                /\ UNCHANGED <<registry, buckets, implIndexes>>
           ELSE IF made.err # "nil"
           THEN /\ mgrOp' = MgrOp("mgr-create", name, made.err, {}, "none", EmptyBucket)
                /\ UNCHANGED <<registry, buckets, implIndexes>>
           ELSE /\ registry' = made.db.registry
                /\ buckets' = made.db.buckets
                /\ implIndexes' = Put(implIndexes, name, NewHNSWIndex(name))
                /\ mgrOp' = MgrOp("mgr-create", name, "nil", {}, "none", EmptyBucket)
    /\ UNCHANGED <<alive, dbOpen, files, wrapperIndexes>>
    /\ MgrUnchanged

\* IndexManager.GetIndex: a lookup in the wrapper's map.
ManagerGetIndex(name) ==
    /\ alive
    /\ mgrOp' = MgrOp("get", name,
                      IF name \in wrapperIndexes THEN "nil" ELSE "notfound",
                      {}, mgrOp.mark, mgrOp.graphs)
    /\ UNCHANGED <<alive, dbOpen, registry, buckets, files, implIndexes,
                   wrapperIndexes, mgrOps>>
    /\ MgrUnchanged

\* IndexManager.ListIndexes: the keys of the wrapper's map.
ManagerListIndexes ==
    /\ alive
    /\ mgrOp' = MgrOp("list", "", "nil", wrapperIndexes, mgrOp.mark, mgrOp.graphs)
    /\ UNCHANGED <<alive, dbOpen, registry, buckets, files, implIndexes,
                   wrapperIndexes, mgrOps>>
    /\ MgrUnchanged

\* IndexManager.DeleteIndex: not found when the wrapper's map lacks the name;
\* otherwise im.db.Update on the nil db of the wrapper panics and the process
\* ends with its in-memory state.
ManagerDeleteIndex(name) ==
    /\ alive
    /\ mgrOps < MaxMgrOps
    /\ mgrOps' = mgrOps + 1
    /\ IF name \notin wrapperIndexes
       THEN /\ mgrOp' = MgrOp("mgr-delete", name, "notfound", {}, "none", EmptyBucket)
            /\ UNCHANGED <<alive, dbOpen, implIndexes, wrapperIndexes>>
       ELSE /\ mgrOp' = MgrOp("mgr-delete", name, "panic", {}, "none", EmptyBucket)
            /\ alive' = FALSE
            /\ dbOpen' = FALSE
            /\ implIndexes' = EmptyBucket
            /\ wrapperIndexes' = {}
    /\ UNCHANGED <<registry, buckets, files>>
    /\ MgrUnchanged

\* IndexManager.Close: im.db is nil, so nothing is closed or saved.
ManagerClose ==
    /\ alive
    /\ mgrOp' = MgrOp("close", "", "nil", {},
                      IF mgrOp.mark \in {"ingested", "closed"} THEN "closed"
                      ELSE "none",
                      EmptyBucket)
    /\ UNCHANGED <<alive, dbOpen, registry, buckets, files, implIndexes,
                   wrapperIndexes, mgrOps>>
    /\ MgrUnchanged

\* The process ends: the operating system closes the database file, the
\* in-memory maps and graphs are gone.
ProcessExit ==
    /\ alive
    /\ mgrOps < MaxMgrOps
    /\ mgrOps' = mgrOps + 1
    /\ alive' = FALSE
    /\ dbOpen' = FALSE
    /\ implIndexes' = EmptyBucket
    /\ wrapperIndexes' = {}
    /\ mgrOp' = MgrOp("exit", "", "nil", {},
                      IF mgrOp.mark = "closed" THEN "exited" ELSE "none",
                      Graphs)
    /\ UNCHANGED <<registry, buckets, files>>
    /\ MgrUnchanged

\* Index.AddDocumentBatch on an index the implementation holds.
ManagerIngest(name, docs) ==
    /\ alive
    /\ mgrOps < MaxMgrOps
    /\ Has(implIndexes, name)
    /\ buckets[name].metadata.NextHNSWId + Demand(docs) <= MaxId + 1
    /\ mgrOps' = mgrOps + 1
    /\ LET out == AddDocumentBatch(IndexStore(name), docs, FALSE,
                                   [i \in 1..Len(docs) |-> "ok"], TRUE)
       IN  /\ buckets' = [buckets EXCEPT ![name] =
                 [documents |-> out.st.documents, hashes |-> out.st.hashes,
                  chunks |-> out.st.chunks, docChunks |-> out.st.docChunks,
                  metadata |-> out.st.metadata]]
           /\ implIndexes' = [implIndexes EXCEPT ![name] =
                 [graph |-> out.st.graph, isModified |-> out.st.isModified]]
           /\ files' = [files EXCEPT ![name] = out.st.diskGraph]
           /\ mgrOp' = MgrOp("ingest", name, out.res.Err, {},
                             IF Succeeded([kind |-> "ingest", res |-> out.res])
                             THEN "ingested" ELSE "none",
                             EmptyBucket)
    /\ UNCHANGED <<alive, dbOpen, registry, wrapperIndexes>>
    /\ MgrUnchanged

\* Storage.CreateIndex on a Storage opened on its own, as a process without
\* manager does.
StoreCreateIndex(name) ==
    /\ ~alive /\ ~dbOpen
    /\ mgrOps < MaxMgrOps
    /\ mgrOps' = mgrOps + 1
    /\ LET made == StorageCreateIndex(DB, name)
       IN  /\ registry' = made.db.registry
           /\ buckets' = made.db.buckets
           /\ mgrOp' = MgrOp("store-create", name, made.err, {}, "none", EmptyBucket)
    /\ UNCHANGED <<alive, dbOpen, files, implIndexes, wrapperIndexes>>
    /\ MgrUnchanged

\* Storage.DeleteIndex on a Storage opened on its own.
StoreDeleteIndex(name) ==
    /\ ~alive /\ ~dbOpen
    /\ mgrOps < MaxMgrOps
    /\ mgrOps' = mgrOps + 1
    /\ LET gone == StorageDeleteIndex(DB, name)
       IN  /\ registry' = gone.db.registry
           /\ buckets' = gone.db.buckets
           /\ mgrOp' = MgrOp("store-delete", name, gone.err, {}, "none", EmptyBucket)
    /\ UNCHANGED <<alive, dbOpen, files, implIndexes, wrapperIndexes>>
    /\ MgrUnchanged

NextMgr ==
    \/ NewIndexManager
    \/ \E name \in Names : ManagerCreateIndex(name)
    \/ \E name \in Names : ManagerGetIndex(name)
    \/ ManagerListIndexes
    \/ \E name \in Names : ManagerDeleteIndex(name)
    \/ ManagerClose
    \/ ProcessExit
    \/ \E name \in Names, docs \in MgrBatches : ManagerIngest(name, docs)
    \/ \E name \in Names : StoreCreateIndex(name)
    \/ \E name \in Names : StoreDeleteIndex(name)

SpecMgr == InitMgr /\ [][NextMgr]_vars

\* ---------------------------------------------------------- HNSWIndex alone
\* The HNSWIndex wrapper used directly, as the indexer tests use it.

Dimension == 3         \* NewHNSWIndex("", 3, DefaultConfig()) of the tests

\* The vectors callers pass, kept as their lengths.
VectorLens == {2, 3, 4}
AnnIds == {1, 2}
Ks == {1, 2}

\* HNSWIndex.Search with the emptiness test ahead of the dimension test.
HNSWSearchEmptyFirst(st, query, k, found) ==
    IF st.graph = {} THEN [err |-> "nil", results |-> {}]
    ELSE IF query # Dimension THEN [err |-> "dimension", results |-> {}]
    ELSE [err |-> "nil", results |-> found]

\* HNSWIndex.Search: the dimension test, then the emptiness test, then the
\* neighbours graph.Search found.
HNSWSearch(st, query, k, found) ==
    IF query # Dimension THEN [err |-> "dimension", results |-> {}]
    ELSE IF st.graph = {} THEN [err |-> "nil", results |-> {}]
    ELSE [err |-> "nil", results |-> found]

\* What graph.Search(query, k) may return: k of the stored ids, or all of
\* them when fewer than k are stored.
Neighbours(st, k) ==
    {f \in SUBSET st.graph : Cardinality(f) = Min(k, Cardinality(st.graph))}

\* The coordinator, the goroutines and the manager are not in use.
NoCoordinator ==
    /\ created = FALSE
    /\ autoSave = TRUE
    /\ documents = EmptyBucket
    /\ hashes = EmptyBucket
    /\ chunks = EmptyBucket
    /\ docChunks = EmptyBucket
    /\ metadata = NoMetadata
    /\ graph = {}
    /\ isModified = FALSE
    /\ diskGraph = {}
    /\ issued = {}
    /\ reissued = FALSE
    /\ idLog = << >>
    /\ ops = 0
    /\ clean = TRUE
    /\ lastOp = [kind |-> "none", docs |-> << >>, force |-> FALSE,
                 modes |-> << >>, res |-> EmptyResult, uri |-> "", id |-> 0,
                 prevKind |-> "none", prevSame |-> FALSE, prevOk |-> FALSE,
                 prevFailed |-> {}]

\* NewHNSWIndex with dimension 3 and no file on its path.
InitANN ==
    /\ NoCoordinator
    /\ NoWorkers
    /\ NoManager
    /\ NoUnits

AnnOp(kind, vector, id, k, err, results) ==
    [kind |-> kind, vector |-> vector, id |-> id, k |-> k, err |-> err,
     results |-> results]

AnnUnchanged ==
    UNCHANGED <<dataVars, concVars, mgrVars, chunker, emb, threads, locks,
               dim>>

\* HNSWIndex.Add
AnnAdd(vector, id) ==
    /\ LET added == HNSWAdd(ann, vector = Dimension, id)
       IN  /\ ann' = added.st
           /\ annOp' = AnnOp("add", vector, id, 0,
                             IF added.err THEN "dimension" ELSE "nil", {})
    /\ AnnUnchanged

\* HNSWIndex.Search
AnnSearch(query, k) ==
    /\ \E found \in Neighbours(ann, k) :
          LET got == HNSWSearch(ann, query, k, found)
          IN  annOp' = AnnOp("search", query, 0, k, got.err, got.results)
    /\ UNCHANGED ann
    /\ AnnUnchanged

\* HNSWIndex.Delete
AnnDelete(id) ==
    /\ ann' = HNSWDelete(ann, id)
    /\ annOp' = AnnOp("delete", 0, id, 0, "nil", {})
    /\ AnnUnchanged

\* HNSWIndex.Clear
AnnClear ==
    /\ ann' = HNSWClear(ann)
    /\ annOp' = AnnOp("clear", 0, 0, 0, "nil", {})
    /\ AnnUnchanged

\* HNSWIndex.Save: a successful os.Create leaves a file on the path.
AnnSave ==
    /\ \E ioOk \in BOOLEAN :
          LET saved == HNSWSave(ann, ioOk)
          IN  /\ ann' = [saved.st EXCEPT !.onDisk = @ \/ ~saved.err]
              /\ annOp' = AnnOp("save", 0, 0, 0,
                                IF saved.err THEN "io" ELSE "nil", {})
    /\ AnnUnchanged

\* The batches callers pass: up to MaxBatch vectors and up to MaxBatch ids.
MaxBatch == 2
BatchVectors == UNION {[1..n -> VectorLens] : n \in 0..MaxBatch}
BatchIds == UNION {[1..n -> AnnIds] : n \in 0..MaxBatch}

\* HNSWIndex.AddBatch
AnnAddBatch(vectors, ids) ==
    /\ LET added == HNSWAddBatch(ann, Dimension, vectors, ids)
       IN  /\ ann' = added.st
           /\ annOp' = AnnOp("addBatch", 0, 0, 0, added.err, {})
    /\ AnnUnchanged

\* LoadHNSWIndex on the same path: NewHNSWIndex and then load. Without a
\* file os.Open fails, the caller gets an error and keeps the index it has.
AnnLoad ==
    /\ \E ioOk \in (IF ann.onDisk THEN BOOLEAN ELSE {FALSE}) :
          LET loaded == HNSWLoad(ann, ioOk)
          IN  /\ ann' = loaded.st
              /\ annOp' = AnnOp("load", 0, 0, 0,
                                IF loaded.err THEN "io" ELSE "nil", {})
    /\ AnnUnchanged

\* HNSWIndex.Close
AnnClose ==
    /\ \E ioOk \in BOOLEAN :
          LET closed == HNSWClose(ann, ioOk)
          IN  /\ ann' = [closed.st EXCEPT
                            !.onDisk = @ \/ (ann.isModified /\ ~closed.err)]
              /\ annOp' = AnnOp("close", 0, 0, 0,
                                IF closed.err THEN "io" ELSE "nil", {})
    /\ AnnUnchanged

NextANN ==
    \/ \E vector \in VectorLens, id \in AnnIds : AnnAdd(vector, id)
    \/ \E vectors \in BatchVectors, ids \in BatchIds : AnnAddBatch(vectors, ids)
    \/ \E query \in VectorLens, k \in Ks : AnnSearch(query, k)
    \/ \E id \in AnnIds : AnnDelete(id)
    \/ AnnClear
    \/ AnnSave
    \/ AnnLoad
    \/ AnnClose

SpecANN == InitANN /\ [][NextANN]_vars

\* ------------------------------------------------------------ Chunker alone
\* The Chunker used directly, for several sizes, overlaps and text lengths.
\* A text is the sequence of its pieces, one piece per token; the encoder
\* maps a piece to its token number and back.

TokenBase == 1000      \* token number of piece p is TokenBase + p

\* The arguments callers pass to NewChunker and the token counts of the
\* texts they chunk.
ChunkSizeArgs == {49, 50, 51}
OverlapArgs == {-1, 0, 10, 40, 51}
TextLens == {0, 1, 49, 50, 51, 52, 60, 75, 89, 90, 91, 92, 100, 101, 102,
             110, 120, 130, 131, 140, 141}

TextOf(n) == [p \in 1..n |-> p]
EncodeText(text) == [j \in 1..Len(text) |-> TokenBase + text[j]]
DecodeTokens(tokens) == [j \in 1..Len(tokens) |-> tokens[j] - TokenBase]

\* NewChunker
NewChunker(chunkSize, overlapSize) ==
    IF chunkSize < 50 THEN [err |-> "chunk size"]
    ELSE IF overlapSize >= chunkSize THEN [err |-> "overlap"]
    ELSE [err |-> "nil", chunkSize |-> chunkSize,
          overlapSize |-> IF overlapSize < 0 THEN 0 ELSE overlapSize]

\* The loop of Chunker.Chunk without the break at the end of the tokens.
RECURSIVE WindowsNoBreak(_, _, _, _)
WindowsNoBreak(c, tokens, i, position) ==
    IF i >= Len(tokens) THEN << >>
    ELSE LET end == Min(i + c.chunkSize, Len(tokens))
             chunkText == DecodeTokens(SubSeq(tokens, i + 1, end))
         IN  <<[ID |-> generateChunkID(chunkText, position),
                Text |-> chunkText, Position |-> position]>>
             \o WindowsNoBreak(c, tokens, i + (c.chunkSize - c.overlapSize),
                               position + 1)

\* The loop of Chunker.Chunk from token offset i with ordinal position.
RECURSIVE Windows(_, _, _, _)
Windows(c, tokens, i, position) ==
    IF i >= Len(tokens) THEN << >>
    ELSE LET end == Min(i + c.chunkSize, Len(tokens))
             chunkText == DecodeTokens(SubSeq(tokens, i + 1, end))
             chunk == [ID |-> generateChunkID(chunkText, position),
                       Text |-> chunkText, Position |-> position]
         IN  IF end = Len(tokens) THEN <<chunk>>
             ELSE <<chunk>> \o Windows(c, tokens,
                                       i + (c.chunkSize - c.overlapSize),
                                       position + 1)

\* Chunker.Chunk of the chunker c.
ChunkerChunk(c, text) ==
    IF text = << >> THEN << >>
    ELSE LET tokens == EncodeText(text)
         IN  IF Len(tokens) <= c.chunkSize
             THEN <<[ID |-> generateChunkID(text, 0), Text |-> text,
                     Position |-> 0]>>
             ELSE Windows(c, tokens, 0, 0)

NoChunkerCall == [c |-> [err |-> "none"], called |-> FALSE, text |-> << >>,
                  chunks |-> << >>]

ChunkUnchanged ==
    UNCHANGED <<dataVars, concVars, mgrVars, ann, annOp, emb, threads, locks,
               dim>>

\* A caller constructs a Chunker.
NewChunkerCall(chunkSize, overlapSize) ==
    /\ chunker' = [NoChunkerCall EXCEPT !.c = NewChunker(chunkSize, overlapSize)]
    /\ ChunkUnchanged

\* A caller chunks a text with the Chunker it holds.
ChunkCall(n) ==
    /\ chunker.c.err = "nil"
    /\ chunker' = [chunker EXCEPT !.called = TRUE, !.text = TextOf(n),
                                  !.chunks = ChunkerChunk(chunker.c, TextOf(n))]
    /\ ChunkUnchanged

InitChunk ==
    /\ NoCoordinator
    /\ NoWorkers
    /\ NoManager
    /\ NoUnits

NextChunk ==
    \/ \E chunkSize \in ChunkSizeArgs, overlapSize \in OverlapArgs :
          NewChunkerCall(chunkSize, overlapSize)
    \/ \E n \in TextLens : ChunkCall(n)

SpecChunk == InitChunk /\ [][NextChunk]_vars

\* ------------------------------------------------------ OllamaEmbedder batch
\* GenerateEmbeddings and GenerateEmbeddingsConcurrent, the latter one step
\* per channel operation of the caller, the workers and the closing
\* goroutine.

EmbTexts == {"a", "b"}
WorkerCounts == 1..MaxWorkers

\* The texts of a batch, each with what the embedding service does for it.
EmbItems == [text : EmbTexts, ok : BOOLEAN]
EmbBatches == UNION {[1..n -> EmbItems] : n \in 0..MaxTexts}

\* GenerateEmbedding(text): the vector of the text, or an error.
GenerateEmbedding(item) ==
    IF item.ok THEN [embedding |-> <<"vec", item.text>>, err |-> FALSE]
    ELSE [embedding |-> << >>, err |-> TRUE]

NoEmbCall ==
    [mode |-> "none", texts |-> << >>, W |-> 0, pc |-> "idle", i |-> 0,
     jobs |-> << >>, jobsClosed |-> FALSE,
     wk |-> [w \in {} |-> 0],
     results |-> << >>, resultsClosed |-> FALSE,
     embeddings |-> << >>, order |-> << >>,
     ret |-> [kind |-> "pending", index |-> 0, embeddings |-> << >>]]

EmbUnchanged ==
    UNCHANGED <<dataVars, concVars, mgrVars, ann, annOp, chunker, threads,
               locks, dim>>

\* The loop of GenerateEmbeddings from text i on.
RECURSIVE EmbedFrom(_, _, _)
EmbedFrom(texts, i, embeddings) ==
    IF i > Len(texts) THEN [kind |-> "ok", index |-> 0, embeddings |-> embeddings]
    ELSE LET got == GenerateEmbedding(texts[i])
         IN  IF got.err
             THEN [kind |-> "error", index |-> i - 1, embeddings |-> << >>]
             ELSE EmbedFrom(texts, i + 1,
                            [embeddings EXCEPT ![i] = got.embedding])

\* GenerateEmbeddings
GenerateEmbeddings(texts) ==
    IF Len(texts) = 0 THEN [kind |-> "ok", index |-> 0, embeddings |-> << >>]
    ELSE EmbedFrom(texts, 1, [j \in 1..Len(texts) |-> << >>])

\* The collect loop writing a result at the place of its arrival.
StoreResultByArrival(embeddings, r, arrival) ==
    [embeddings EXCEPT ![arrival] = r.embedding]

\* The collect loop of GenerateEmbeddingsConcurrent: embeddings[r.index].
StoreResult(embeddings, r, arrival) ==
    [embeddings EXCEPT ![r.index + 1] = r.embedding]

\* Channels that hold one element whatever the batch.
ChannelCapacityOne(texts) == 1

\* make(chan ..., len(texts)): jobs and results hold len(texts) elements.
ChannelCapacity(texts) == Len(texts)

\* A caller runs GenerateEmbeddings.
EmbSequential(texts) ==
    /\ emb.mode = "none"
    /\ emb' = [NoEmbCall EXCEPT !.mode = "seq", !.texts = texts, !.pc = "done",
                                !.ret = GenerateEmbeddings(texts)]
    /\ EmbUnchanged

\* A caller enters GenerateEmbeddingsConcurrent: the empty batch returns at
\* once; otherwise the channels are made and the workers started.
EmbConcurrentBegin(texts, W) ==
    /\ emb.mode = "none"
    /\ IF Len(texts) = 0
       THEN emb' = [NoEmbCall EXCEPT !.mode = "conc", !.W = W, !.pc = "done",
                       !.ret = [kind |-> "ok", index |-> 0, embeddings |-> << >>]]
       ELSE emb' = [NoEmbCall EXCEPT !.mode = "conc", !.texts = texts, !.W = W,
                       !.pc = "send", !.i = 1,
                       !.wk = [w \in 1..W |-> [pc |-> "recv", idx |-> 0]],
                       !.embeddings = [j \in 1..Len(texts) |-> << >>]]
    /\ EmbUnchanged

\* The caller sends the next job, waiting while the jobs channel is full,
\* and closes the channel after the last.
EmbSendJob ==
    /\ emb.pc = "send"
    /\ IF emb.i <= Len(emb.texts)
       THEN /\ Len(emb.jobs) < ChannelCapacity(emb.texts)
            /\ emb' = [emb EXCEPT !.jobs = Append(@, emb.i - 1), !.i = @ + 1]
       ELSE emb' = [emb EXCEPT !.jobsClosed = TRUE, !.pc = "collect"]
    /\ EmbUnchanged

\* A worker receives from jobs: a job, or the end of the range loop when the
\* channel is closed and drained.
EmbWorkerReceive(w) ==
    /\ emb.mode = "conc"
    /\ w \in DOMAIN emb.wk
    /\ emb.wk[w].pc = "recv"
    /\ \/ /\ emb.jobs # << >>
          /\ emb' = [emb EXCEPT !.jobs = Tail(@),
                                !.wk[w] = [pc |-> "gen", idx |-> Head(emb.jobs)]]
       \/ /\ emb.jobs = << >>
          /\ emb.jobsClosed
          /\ emb' = [emb EXCEPT !.wk[w] = [pc |-> "exit", idx |-> 0]]
    /\ EmbUnchanged

\* A worker finishes GenerateEmbedding for its job and sends the result,
\* waiting while the results channel is full.
EmbWorkerSend(w) ==
    /\ emb.mode = "conc"
    /\ w \in DOMAIN emb.wk
    /\ emb.wk[w].pc = "gen"
    /\ Len(emb.results) < ChannelCapacity(emb.texts)
    /\ LET idx == emb.wk[w].idx
           got == GenerateEmbedding(emb.texts[idx + 1])
       IN  emb' = [emb EXCEPT
                      !.results = Append(@, [index |-> idx,
                                             embedding |-> got.embedding,
                                             err |-> got.err]),
                      !.wk[w] = [pc |-> "recv", idx |-> 0]]
    /\ EmbUnchanged

\* The goroutine that waits for the workers closes results.
EmbCloseResults ==
    /\ emb.mode = "conc"
    /\ emb.jobsClosed
    /\ ~emb.resultsClosed
    /\ \A w \in DOMAIN emb.wk : emb.wk[w].pc = "exit"
    /\ emb' = [emb EXCEPT !.resultsClosed = TRUE]
    /\ EmbUnchanged

\* The caller receives from results: an error result makes it return, any
\* other is stored; the closed and drained channel ends the loop.
EmbCollect ==
    /\ emb.pc = "collect"
    /\ \/ /\ emb.results # << >>
          /\ LET r == Head(emb.results)
             IN  IF r.err
                 THEN emb' = [emb EXCEPT
                                 !.results = Tail(@),
                                 !.order = Append(@, r.index),
                                 !.pc = "done",
                                 !.ret = [kind |-> "error", index |-> r.index,
                                          embeddings |-> << >>]]
                 ELSE emb' = [emb EXCEPT
                                 !.results = Tail(@),
                                 !.order = Append(@, r.index),
                                 !.embeddings =
                                     StoreResult(@, r, Len(emb.order) + 1)]
       \/ /\ emb.results = << >>
          /\ emb.resultsClosed
          /\ emb' = [emb EXCEPT !.pc = "done",
                                !.ret = [kind |-> "ok", index |-> 0,
                                         embeddings |-> emb.embeddings]]
    /\ EmbUnchanged

InitEmbed ==
    /\ NoCoordinator
    /\ NoWorkers
    /\ NoManager
    /\ NoUnits

NextEmbed ==
    \/ \E texts \in EmbBatches : EmbSequential(texts)
    \/ \E texts \in EmbBatches, W \in WorkerCounts : EmbConcurrentBegin(texts, W)
    \/ EmbSendJob
    \/ \E w \in 1..MaxWorkers : EmbWorkerReceive(w)
    \/ \E w \in 1..MaxWorkers : EmbWorkerSend(w)
    \/ EmbCloseResults
    \/ EmbCollect

SpecEmbed == InitEmbed /\ [][NextEmbed]_vars

\* The Go scheduler runs every goroutine that can take a step: the caller,
\* each worker and the closing goroutine.
EmbFairness ==
    /\ WF_vars(EmbSendJob)
    /\ \A w \in 1..MaxWorkers : WF_vars(EmbWorkerReceive(w))
    /\ \A w \in 1..MaxWorkers : WF_vars(EmbWorkerSend(w))
    /\ WF_vars(EmbCloseResults)
    /\ WF_vars(EmbCollect)

SpecEmbedLive == InitEmbed /\ [][NextEmbed]_vars /\ EmbFairness

\* ------------------------------------------------------ locks and goroutines
\* Goroutines calling into one IndexManager, one index and its HNSWIndex.
\* Every method is the sequence of its lock calls and of the steps it takes
\* between them; the storage transactions, which bbolt serialises and which
\* take none of these locks, are followed in the coordinator specifications.

Threads == 1..MaxThreads
ThreadIds == {1}       \* the vector id the goroutines add and delete

MgrLock == "IndexManager.mu"
ImplLock == "indexManagerImpl.mu"
CoordLock == "indexImpl.mu"
AnnLock == "HNSWIndex.mu"

Acq(k, l) == [k |-> k, l |-> l]
Do(k) == [k |-> k, l |-> ""]
LockKinds == {"Lock", "RLock"}
UnlockKinds == {"Unlock", "RUnlock"}

\* HNSWIndex.Size
SizeProgram ==
    <<Acq("RLock", AnnLock), Do("graph.Len"), Acq("RUnlock", AnnLock)>>

\* HNSWIndex.Add; ok: the vector has the index's dimension.
AddProgram(ok) ==
    <<Acq("Lock", AnnLock)>>
    \o (IF ok THEN <<Do("graph.Add:node"), Do("graph.Add:links"),
                     Do("isModified=true")>>
        ELSE << >>)
    \o <<Acq("Unlock", AnnLock)>>

\* HNSWIndex.AddBatch reading the size for its log line after taking the lock.
AddBatchProgramSizeInside(ok) ==
    <<Acq("Lock", AnnLock)>> \o SizeProgram
    \o (IF ok THEN <<Do("graph.Add:node"), Do("graph.Add:links"),
                     Do("isModified=true")>>
        ELSE << >>)
    \o <<Acq("Unlock", AnnLock)>>

\* HNSWIndex.AddBatch: Size() for the log line, then the exclusive lock.
AddBatchProgram(ok) ==
    SizeProgram \o <<Acq("Lock", AnnLock)>>
    \o (IF ok THEN <<Do("graph.Add:node"), Do("graph.Add:links"),
                     Do("isModified=true")>>
        ELSE << >>)
    \o <<Acq("Unlock", AnnLock)>>

\* HNSWIndex.Search reading the graph without the shared lock.
SearchProgramUnlocked(ok) ==
    SizeProgram
    \o (IF ok THEN <<Do("graph.Len"), Do("graph.Search")>> ELSE << >>)

\* HNSWIndex.Search: Size() for the log line, then the shared lock around
\* the dimension test, graph.Len and graph.Search.
SearchProgram(ok) ==
    SizeProgram \o <<Acq("RLock", AnnLock)>>
    \o (IF ok THEN <<Do("graph.Len"), Do("graph.Search")>> ELSE << >>)
    \o <<Acq("RUnlock", AnnLock)>>

\* HNSWIndex.Delete
DeleteProgram ==
    <<Acq("Lock", AnnLock), Do("graph.Delete:node"), Do("graph.Delete:links"),
      Do("isModified=true"), Acq("Unlock", AnnLock)>>

\* HNSWIndex.Clear: the new graph is built aside and assigned in one step.
ClearProgram ==
    SizeProgram
    \o <<Acq("Lock", AnnLock), Do("h.graph=graph"), Do("isModified=true"),
         Acq("Unlock", AnnLock)>>

\* HNSWIndex.Save: Size() for the log line, then the shared lock around
\* os.Create, Export and the write of the flag; ok: os.Create succeeds.
SaveProgram(ok) ==
    SizeProgram \o <<Acq("RLock", AnnLock)>>
    \o (IF ok THEN <<Do("os.Create"), Do("Export"), Do("isModified=false")>>
        ELSE << >>)
    \o <<Acq("RUnlock", AnnLock)>>

\* HNSWIndex.Close
CloseProgram ==
    <<Acq("Lock", AnnLock), Do("Close:os.Create"), Do("Close:Export"),
      Acq("Unlock", AnnLock)>>

\* HNSWIndex.IsModified
IsModifiedProgram ==
    <<Acq("RLock", AnnLock), Do("isModified"), Acq("RUnlock", AnnLock)>>

\* IndexManager.GetIndex and IndexManager.ListIndexes
GetIndexProgram ==
    <<Acq("RLock", MgrLock), Do("indexes"), Acq("RUnlock", MgrLock)>>

\* IndexManager.DeleteIndex
DeleteIndexProgram ==
    <<Acq("Lock", MgrLock), Do("db.Update"), Do("delete(indexes)"),
      Acq("Unlock", MgrLock)>>

\* IndexManager.Close
ManagerCloseProgram ==
    <<Acq("Lock", MgrLock), Do("db.Close"), Acq("Unlock", MgrLock)>>

\* indexManagerImpl.CreateIndex: NewHNSWIndex builds an index no other
\* goroutine can reach yet and takes no lock.
CreateIndexProgram ==
    <<Acq("Lock", ImplLock), Do("storage.CreateIndex"), Do("NewHNSWIndex"),
      Do("indexes[name]="), Acq("Unlock", ImplLock)>>

\* indexImpl.AddDocumentBatch of one single-chunk document with AutoSave:
\* hnswIndex.Add from processChunks, then hnswIndex.Save. The coordinator
\* takes no lock of its own.
IngestProgram(ok) == AddProgram(TRUE) \o SaveProgram(ok)

\* indexImpl.DeleteDocument of a single-chunk document with AutoSave.
DeleteDocumentProgram(ok) == DeleteProgram \o SaveProgram(ok)

\* The program of a call.
Program(op, ok) ==
    CASE op = "Size" -> SizeProgram
      [] op = "Add" -> AddProgram(ok)
      [] op = "AddBatch" -> AddBatchProgram(ok)
      [] op = "Search" -> SearchProgram(ok)
      [] op = "Delete" -> DeleteProgram
      [] op = "Clear" -> ClearProgram
      [] op = "Save" -> SaveProgram(ok)
      [] op = "Close" -> CloseProgram
      [] op = "IsModified" -> IsModifiedProgram
      [] op = "GetIndex" -> GetIndexProgram
      [] op = "DeleteIndex" -> DeleteIndexProgram
      [] op = "ManagerClose" -> ManagerCloseProgram
      [] op = "CreateIndex" -> CreateIndexProgram
      [] op = "AddDocumentBatch" -> IngestProgram(ok)
      [] op = "DeleteDocument" -> DeleteDocumentProgram(ok)
      [] OTHER -> << >>

\* The calls a goroutine makes: those that can fail come in both variants.
FallibleOps ==
    {"Add", "AddBatch", "Search", "Save", "AddDocumentBatch", "DeleteDocument"}
InfallibleOps ==
    {"Size", "Delete", "Clear", "Close", "IsModified", "GetIndex",
     "DeleteIndex", "ManagerClose", "CreateIndex"}
Calls ==
    {[op |-> o, id |-> i, ok |-> b, pc |-> 1] :
        o \in FallibleOps, i \in ThreadIds, b \in BOOLEAN}
    \cup {[op |-> o, id |-> i, ok |-> TRUE, pc |-> 1] :
        o \in InfallibleOps, i \in ThreadIds}

\* The instruction goroutine t executes next.
Instr(t) ==
    LET prog == Program(threads[t].op, threads[t].ok)
    IN  IF threads[t].pc \in 1..Len(prog) THEN prog[threads[t].pc]
        ELSE Do("return")

\* sync.RWMutex: Lock succeeds when nobody holds the lock; RLock when no
\* writer holds it and no writer waits for it.
CanLock(l) == l.writer = 0 /\ \A u \in Threads : l.readers[u] = 0
CanRLock(l) == l.writer = 0 /\ l.waiting = {}

\* The locks goroutine t holds.
Held(t) ==
    {l \in LockNames : locks[l].writer = t \/ locks[l].readers[t] > 0}

\* What a step between the lock calls does to the HNSWIndex.
WorkEffect(st, k, id) ==
    CASE k = "graph.Add:node" -> [st EXCEPT !.graph = @ \cup {id}]
      [] k = "graph.Delete:node" -> [st EXCEPT !.graph = @ \ {id}]
      [] k = "h.graph=graph" -> [st EXCEPT !.graph = {}]
      [] k = "isModified=true" -> [st EXCEPT !.isModified = TRUE]
      [] k = "isModified=false" -> [st EXCEPT !.isModified = FALSE]
      [] k = "os.Create" -> [st EXCEPT !.diskGraph = {}, !.onDisk = TRUE]
      [] k = "Export" -> [st EXCEPT !.diskGraph = st.graph]
      [] k = "Close:os.Create" ->
            IF st.isModified
            THEN [st EXCEPT !.diskGraph = {}, !.onDisk = TRUE] ELSE st
      [] k = "Close:Export" ->
            IF st.isModified THEN [st EXCEPT !.diskGraph = st.graph] ELSE st
      [] OTHER -> st

Advance(t) == threads' = [threads EXCEPT ![t].pc = @ + 1]

LockUnchanged ==
    UNCHANGED <<dataVars, concVars, mgrVars, annOp, chunker, emb, dim>>

\* A goroutine calls a method.
ThreadCall(t, call) ==
    /\ threads[t].op = "idle"
    /\ threads' = [threads EXCEPT ![t] = call]
    /\ UNCHANGED <<ann, locks>>
    /\ LockUnchanged

\* mu.Lock() returns.
ThreadLock(t) ==
    /\ Instr(t).k = "Lock"
    /\ CanLock(locks[Instr(t).l])
    /\ locks' = [locks EXCEPT ![Instr(t).l].writer = t,
                              ![Instr(t).l].waiting = @ \ {t}]
    /\ Advance(t)
    /\ UNCHANGED ann
    /\ LockUnchanged

\* mu.Lock() finds the lock held and blocks; new readers now queue behind it.
ThreadLockWait(t) ==
    /\ Instr(t).k = "Lock"
    /\ ~CanLock(locks[Instr(t).l])
    /\ t \notin locks[Instr(t).l].waiting
    /\ locks' = [locks EXCEPT ![Instr(t).l].waiting = @ \cup {t}]
    /\ UNCHANGED <<ann, threads>>
    /\ LockUnchanged

\* mu.RLock() returns.
ThreadRLock(t) ==
    /\ Instr(t).k = "RLock"
    /\ CanRLock(locks[Instr(t).l])
    /\ locks' = [locks EXCEPT ![Instr(t).l].readers[t] = @ + 1]
    /\ Advance(t)
    /\ UNCHANGED ann
    /\ LockUnchanged

\* The deferred mu.Unlock()
ThreadUnlock(t) ==
    /\ Instr(t).k = "Unlock"
    /\ locks' = [locks EXCEPT ![Instr(t).l].writer = 0]
    /\ Advance(t)
    /\ UNCHANGED ann
    /\ LockUnchanged

\* The deferred mu.RUnlock()
ThreadRUnlock(t) ==
    /\ Instr(t).k = "RUnlock"
    /\ locks' = [locks EXCEPT ![Instr(t).l].readers[t] = @ - 1]
    /\ Advance(t)
    /\ UNCHANGED ann
    /\ LockUnchanged

\* A step between the lock calls.
ThreadWork(t) ==
    /\ threads[t].op # "idle"
    /\ Instr(t).k \notin LockKinds \cup UnlockKinds \cup {"return"}
    /\ ann' = WorkEffect(ann, Instr(t).k, threads[t].id)
    /\ Advance(t)
    /\ UNCHANGED locks
    /\ LockUnchanged

\* The method returns.
ThreadReturn(t) ==
    /\ threads[t].op # "idle"
    /\ Instr(t).k = "return"
    /\ threads' = [threads EXCEPT ![t] = IdleThread]
    /\ UNCHANGED <<ann, locks>>
    /\ LockUnchanged

InitLocks ==
    /\ NoCoordinator
    /\ NoWorkers
    /\ NoManager
    /\ NoUnits

NextLocks ==
    \/ \E t \in 1..MaxThreads, call \in Calls : ThreadCall(t, call)
    \/ \E t \in 1..MaxThreads : ThreadLock(t)
    \/ \E t \in 1..MaxThreads : ThreadLockWait(t)
    \/ \E t \in 1..MaxThreads : ThreadRLock(t)
    \/ \E t \in 1..MaxThreads : ThreadUnlock(t)
    \/ \E t \in 1..MaxThreads : ThreadRUnlock(t)
    \/ \E t \in 1..MaxThreads : ThreadWork(t)
    \/ \E t \in 1..MaxThreads : ThreadReturn(t)

SpecLocks == InitLocks /\ [][NextLocks]_vars

\* ------------------------------------------------- dimension across restarts
\* The dimension of the HNSWIndex of each index: chosen by CreateIndex from
\* the embedder, chosen again by loadIndexes when a process reopens the data
\* path, and compared by HNSWIndex.Add with every vector's length.

EmbedModels ==
    {"nomic-embed-text", "mxbai-embed-large", "all-minilm", "custom-model"}

DefaultDimension == 768    \* "Default for nomic-embed-text"

\* getDimensionForModel: the table of known models, 0 for any other.
getDimensionForModel(model) ==
    CASE model = "nomic-embed-text" -> 768
      [] model = "nomic-embed-text-v1" -> 768
      [] model = "nomic-embed-text-v1.5" -> 768
      [] model = "mxbai-embed-large" -> 1024
      [] model = "all-minilm" -> 384
      [] OTHER -> 0

\* The length of the vectors the service returns for a model: the table's
\* value for a known model, 512 for the model the table does not know.
EmbeddingLength(model) ==
    IF getDimensionForModel(model) # 0 THEN getDimensionForModel(model)
    ELSE 512

\* NewHNSWIndex: a dimension that is not positive is refused.
NewHNSWIndexDimension(dimension) ==
    IF dimension <= 0 THEN [err |-> "dimension must be positive", dimension |-> 0]
    ELSE [err |-> "nil", dimension |-> dimension]

\* loadIndexes: every registered index gets an HNSWIndex of dimension 768.
LoadDimension(createdDimension) == DefaultDimension

DimOp(kind, name, err) == [kind |-> kind, name |-> name, err |-> err]

DimUnchanged ==
    UNCHANGED <<dataVars, concVars, mgrVars, ann, annOp, chunker, emb, threads,
                locks>>

\* NewIndexManagerImpl with Config.EmbedModel = model: NewOllamaEmbedder, then
\* loadIndexes. A data path is reopened with the model it was first used with.
DimNewIndexManager(model) ==
    /\ ~dim.alive
    /\ dim.model \in {"", model}
    /\ dim' = [dim EXCEPT
                 !.model = model,
                 !.alive = TRUE,
                 !.embedderDimension = getDimensionForModel(model),
                 !.hnswDimension =
                     [n \in Names |->
                        IF n \in dim.registered
                        THEN NewHNSWIndexDimension(
                                 LoadDimension(dim.createdDimension[n])).dimension
                        ELSE 0],
                 !.op = DimOp("open", "", "nil")]
    /\ DimUnchanged

\* indexManagerImpl.CreateIndex: the map lookup, Storage.CreateIndex, the
\* embedder's dimension, NewHNSWIndex.
DimCreateIndex(name) ==
    /\ dim.alive
    /\ LET made == NewHNSWIndexDimension(dim.embedderDimension)
       IN  IF dim.hnswDimension[name] # 0
           THEN dim' = [dim EXCEPT !.op = DimOp("create", name, "exists")]
           ELSE IF name \in dim.registered
           THEN dim' = [dim EXCEPT !.op = DimOp("create", name, "storage")]
           ELSE dim' = [dim EXCEPT
                          !.registered = @ \cup {name},
                          !.hnswDimension[name] = made.dimension,
                          !.createdDimension[name] = made.dimension,
                          !.op = DimOp("create", name, made.err)]
    /\ DimUnchanged

\* indexImpl.AddDocumentBatch of one document: GenerateEmbeddings sets the
\* embedder's dimension when it was unknown, then hnswIndex.Add compares the
\* vector's length with the index's dimension.
DimIngest(name) ==
    /\ dim.alive
    /\ dim.hnswDimension[name] # 0
    /\ LET length == EmbeddingLength(dim.model)
           ok == length = dim.hnswDimension[name]
       IN  dim' = [dim EXCEPT
                     !.embedderDimension = IF @ = 0 THEN length ELSE @,
                     !.accepted[name] = IF ok THEN @ \cup {length} ELSE @,
                     !.op = DimOp("ingest", name,
                                  IF ok THEN "nil" ELSE "dimension")]
    /\ DimUnchanged

\* The process closes the manager and ends.
DimClose ==
    /\ dim.alive
    /\ dim' = [dim EXCEPT !.alive = FALSE,
                          !.embedderDimension = 0,
                          !.hnswDimension = [n \in Names |-> 0],
                          !.op = DimOp("close", "", "nil")]
    /\ DimUnchanged

InitDim ==
    /\ NoCoordinator
    /\ NoWorkers
    /\ NoManager
    /\ NoUnits

NextDim ==
    \/ \E model \in EmbedModels : DimNewIndexManager(model)
    \/ \E name \in Names : DimCreateIndex(name)
    \/ \E name \in Names : DimIngest(name)
    \/ DimClose

SpecDim == InitDim /\ [][NextDim]_vars

\* ------------------------------------------------------------- properties
DistinctURIs(docs) ==
    \A i, j \in 1..Len(docs) : i # j => docs[i].URI # docs[j].URI

\* The ingest just completed repeats the batch of the ingest before it.
RepeatedIngest ==
    lastOp.kind = "ingest" /\ lastOp.prevKind = "ingest" /\ lastOp.prevSame

\* The URIs of the documents of a batch that are not classified unchanged,
\* in submission order.
RECURSIVE EnqueuedFrom(_, _, _)
EnqueuedFrom(docs, classes, i) ==
    IF i > Len(docs) THEN << >>
    ELSE (IF classes[i] = "unchanged" THEN << >> ELSE <<docs[i].URI>>)
            \o EnqueuedFrom(docs, classes, i + 1)

\* C1: a batch of pairwise distinct URIs that was ingested without any failed
\* URI and is ingested again unchanged with force_update=false is reported
\* with new=0, updated=0, unchanged=|D| and processed_chunks=0.
C1_ReingestUnchanged ==
    (RepeatedIngest /\ lastOp.prevOk /\ ~lastOp.force /\ DistinctURIs(lastOp.docs))
        => /\ lastOp.res.NewDocuments = 0
           /\ lastOp.res.UpdatedDocuments = 0
           /\ lastOp.res.UnchangedDocuments = Len(lastOp.docs)
           /\ lastOp.res.ProcessedChunks = 0

C1_Witness ==
    /\ RepeatedIngest /\ lastOp.prevOk /\ ~lastOp.force
    /\ DistinctURIs(lastOp.docs)
    /\ Len(lastOp.docs) = 2
    /\ lastOp.res.UnchangedDocuments = 2

\* The class the triage rule gives a document against the hash bucket h.
ExpectedClass(h, doc, force) ==
    IF doc.URI \notin DOMAIN h THEN "new"
    ELSE IF h[doc.URI] = computeDocumentHash(doc) /\ ~force THEN "unchanged"
    ELSE "updated"

\* C2: every ingest classifies each submitted document by the hash stored
\* under the document's own URI before the call: none -> new, equal and
\* force_update=false -> unchanged, otherwise updated; the counts are the
\* numbers of documents of each class and exactly the new and updated
\* documents are enqueued.
C2_TriageByOwnURI ==
    [][(lastOp'.kind = "ingest" /\ ops' = ops + 1) =>
        LET op == lastOp'
            expected == [i \in 1..Len(op.docs) |->
                            ExpectedClass(hashes, op.docs[i], op.force)]
        IN  /\ op.res.Classes = expected
            /\ op.res.NewDocuments = CountOf(expected, "new")
            /\ op.res.UpdatedDocuments = CountOf(expected, "updated")
            /\ op.res.UnchangedDocuments = CountOf(expected, "unchanged")
            /\ op.res.Order = EnqueuedFrom(op.docs, expected, 1)]_vars

\* An ingest counted a document new whose title and content are stored, with
\* the same hash, under another URI that the batch does not touch.
C2_Witness ==
    /\ lastOp.kind = "ingest"
    /\ \E i \in 1..Len(lastOp.docs) :
          /\ lastOp.res.Classes[i] = "new"
          /\ \E u \in DOMAIN hashes :
                /\ \A j \in 1..Len(lastOp.docs) : lastOp.docs[j].URI # u
                /\ hashes[u] = computeDocumentHash(lastOp.docs[i])

\* C3: after an ingest of D without failure, ingesting the same D with
\* force_update=true reports updated=|D|, new=0 and unchanged=0, and, when no
\* document fails and D has content, processed_chunks > 0.
C3_ForceUpdateReprocesses ==
    (RepeatedIngest /\ lastOp.prevOk /\ lastOp.force)
        => /\ lastOp.res.UpdatedDocuments = Len(lastOp.docs)
           /\ lastOp.res.NewDocuments = 0
           /\ lastOp.res.UnchangedDocuments = 0
           /\ lastOp.res.Order = [i \in 1..Len(lastOp.docs) |-> lastOp.docs[i].URI]
           /\ (/\ DOMAIN lastOp.res.FailedURIs = {}
               /\ \E i \in 1..Len(lastOp.docs) : lastOp.docs[i].Content # "")
                  => lastOp.res.ProcessedChunks > 0

C3_Witness ==
    /\ RepeatedIngest /\ lastOp.prevOk /\ lastOp.force
    /\ Len(lastOp.docs) = 2
    /\ DistinctURIs(lastOp.docs)
    /\ lastOp.res.UpdatedDocuments = 2
    /\ lastOp.res.ProcessedChunks >= 2

\* C4: clear leaves no stored hash, and an ingest of D that directly follows
\* ingest(D) and clear() reports new=|D|, updated=0 and unchanged=0.
C4_ClearThenIngestIsNew ==
    /\ lastOp.kind = "clear" => DOMAIN hashes = {}
    /\ (lastOp.kind = "ingest" /\ lastOp.prevKind = "clear" /\ lastOp.prevSame)
          => /\ lastOp.res.NewDocuments = Len(lastOp.docs)
             /\ lastOp.res.UpdatedDocuments = 0
             /\ lastOp.res.UnchangedDocuments = 0

C4_Witness ==
    /\ lastOp.kind = "ingest" /\ lastOp.prevKind = "clear" /\ lastOp.prevSame
    /\ Len(lastOp.docs) = 2
    /\ lastOp.res.NewDocuments = 2

\* C5: a document whose processing failed in an ingest is not classified
\* unchanged when the same batch (pairwise distinct URIs, same content,
\* force_update=false) is ingested again.
C5_FailedIsReprocessed ==
    (RepeatedIngest /\ ~lastOp.force /\ DistinctURIs(lastOp.docs))
        => \A i \in 1..Len(lastOp.docs) :
              lastOp.docs[i].URI \in lastOp.prevFailed
                 => lastOp.res.Classes[i] # "unchanged"

\* Document i is the last enqueued document of the batch with its URI.
LastOfURI(op, i) ==
    \A j \in (i + 1)..Len(op.docs) :
        op.docs[j].URI = op.docs[i].URI => op.res.Classes[j] = "unchanged"

\* Every chunk of the document is stored and its vector is in the graph.
FullyIndexed(doc) ==
    /\ Has(documents, doc.URI)
    /\ documents[doc.URI].Content = doc.Content
    /\ LET cs == ChunkDocument(doc.URI, doc.Content)
       IN  /\ Has(docChunks, doc.URI)
           /\ docChunks[doc.URI] = [k \in 1..Len(cs) |-> cs[k].ID]
           /\ \A k \in 1..Len(cs) :
                 /\ Has(chunks, cs[k].ID)
                 /\ chunks[cs[k].ID].HNSWId \in graph

C7_ChunkVectorsInGraph ==
    clean => \A c \in DOMAIN chunks : chunks[c].HNSWId \in graph

\* C8: a hash is stored for a URI if and only if exactly one document record
\* is stored for that URI.
C8_HashIffDocument ==
    \A u \in URIs :
        Has(hashes, u)
            <=> Cardinality({k \in DOMAIN documents : documents[k].URI = u}) = 1

\* A delete_document removed one of two ingested documents: the other keeps
\* record and hash, the deleted one has neither.
C8_Witness ==
    /\ lastOp.kind = "delete"
    /\ lastOp.prevKind = "ingest"
    /\ ~Has(hashes, lastOp.uri) /\ ~Has(documents, lastOp.uri)
    /\ \E u \in URIs : Has(hashes, u) /\ Has(documents, u)
    /\ chunks # EmptyBucket

\* C9 as stated: next_vector_id exceeds every id ever returned for the index
\* and no id is returned twice.
C9_NeverReissued ==
    created => /\ \A id \in issued : metadata.NextHNSWId > id
               /\ ~reissued

\* C9, amended: next_vector_id exceeds every id returned since the index was
\* created or last cleared, across ingests, deletes and reopen, and no id is
\* returned twice between two clears; clear sets next_vector_id back to 1.
C9_UniqueBetweenClears ==
    created => /\ \A k \in 1..Len(idLog) : metadata.NextHNSWId > idLog[k]
               /\ \A j, k \in 1..Len(idLog) : j # k => idLog[j] # idLog[k]
               /\ lastOp.kind = "clear" => metadata.NextHNSWId = 1

\* Ids were returned after a clear that had been returned before it.
C9_Witness ==
    /\ created
    /\ reissued
    /\ Len(idLog) >= 2
    /\ lastOp.kind = "ingest"

\* C10: the ids returned since creation (or the last clear) are 1, 2, 3, ...
\* and next_vector_id is one more than the last of them; a get_next_vector_id
\* call returns the stored counter and stores it incremented by one; a failed
\* call leaves the metadata as it was.
C10_NextIdSequence ==
    /\ [](created => /\ \A k \in 1..Len(idLog) : idLog[k] = k
                     /\ metadata.NextHNSWId = Len(idLog) + 1)
    /\ [][(lastOp'.kind = "nextid" /\ ops' = ops + 1)
             => /\ lastOp'.id = metadata.NextHNSWId
                /\ metadata'.NextHNSWId = metadata.NextHNSWId + 1]_vars
    /\ [][lastOp'.kind = "nextid-failed"
             => metadata' = metadata /\ idLog' = idLog]_vars

C10_Witness ==
    /\ lastOp.kind = "nextid"
    /\ lastOp.id = 3
    /\ idLog = <<1, 2, 3>>
    /\ metadata.NextHNSWId = 4

\* C11: the vector ids allocated by two concurrent ingests of one index, and
\* by the ingests that follow them, are pairwise distinct and allocated in
\* increasing order.
C11_ConcurrentIdsDistinct ==
    \A j, k \in 1..Len(idLog) : j < k => idLog[j] < idLog[k]

\* The positions of a chunk list are 0, 1, ..., n-1 in this order.
PositionsInOrder(cs) == \A j \in 1..Len(cs) : cs[j].Position = j - 1

\* C12: get_chunks_by_document(U) returns chunks whose positions are
\* 0..n-1 in ascending order, without gap or duplicate, and for a document
\* the ingest just processed without failure n is the chunk count k of its
\* content, also when the content stored before had more chunks.
C12_ChunksByPosition ==
    /\ \A u \in URIs : PositionsInOrder(GetChunksByDocument(Store, u))
    /\ lastOp.kind = "ingest" =>
          \A i \in 1..Len(lastOp.docs) :
             (/\ lastOp.res.Classes[i] # "unchanged"
              /\ lastOp.docs[i].URI \notin DOMAIN lastOp.res.FailedURIs
              /\ LastOfURI(lastOp, i))
                => LET doc == lastOp.docs[i]
                       got == GetChunksByDocument(Store, doc.URI)
                       cs == Chunk(doc.Content)
                   IN  /\ Len(got) = Len(cs)
                       /\ \A j \in 1..Len(cs) : got[j].Text = cs[j].Text

\* A two-chunk document was ingested and then re-ingested with one-chunk
\* content: one chunk, at position 0, is returned.
C12_Witness ==
    /\ ops = 2
    /\ lastOp.kind = "ingest" /\ lastOp.prevKind = "ingest" /\ lastOp.prevOk
    /\ Len(lastOp.docs) = 1
    /\ lastOp.docs[1].Content = "s"
    /\ lastOp.res.Classes = <<"updated">>
    /\ DOMAIN lastOp.res.FailedURIs = {}
    /\ Len(GetChunksByDocument(Store, lastOp.docs[1].URI)) = 1

\* C13: delete_document(U) deletes the chunk records of U, which it can only
\* do while the doc->chunks mapping of U exists: after it no chunk record of
\* U is stored.
C13_DeleteRemovesChunkRecords ==
    lastOp.kind = "delete" =>
        \A c \in DOMAIN chunks : chunks[c].DocumentURI # lastOp.uri

\* C14: clear leaves an empty graph, no document, chunk or hash record and
\* the metadata {next_vector_id=1, document_count=0, chunk_count=0}.
C14_ClearLeavesNothing ==
    lastOp.kind = "clear" =>
        /\ graph = {}
        /\ DOMAIN documents = {}
        /\ DOMAIN chunks = {}
        /\ DOMAIN hashes = {}
        /\ metadata = InitialMetadata

\* C15: Storage.CreateIndex(name) returns the already-exists error and leaves
\* registry and buckets as they were when the registry contains name;
\* otherwise it returns no error, adds name to the registry, the five
\* buckets of name exist and its metadata is {1, 0, 0}, and no other index
\* is touched.
C15_StoreCreateIndex ==
    [][(mgrOp'.kind = "store-create" /\ mgrOps' = mgrOps + 1) =>
         LET name == mgrOp'.name
         IN  IF name \in registry
             THEN /\ mgrOp'.err = "exists"
                  /\ registry' = registry
                  /\ buckets' = buckets
             ELSE /\ mgrOp'.err = "nil"
                  /\ registry' = registry \cup {name}
                  /\ Has(buckets', name)
                  /\ DOMAIN buckets'[name] =
                        {"documents", "hashes", "chunks", "docChunks", "metadata"}
                  /\ buckets'[name].metadata = InitialMetadata
                  /\ \A n \in DOMAIN buckets \ {name} :
                        Has(buckets', n) /\ buckets'[n] = buckets[n]]_vars

\* A store-level create of a registered name whose buckets hold a document
\* was refused.
C15_Witness ==
    /\ mgrOp.kind = "store-create"
    /\ mgrOp.err = "exists"
    /\ mgrOp.name \in registry
    /\ DOMAIN buckets[mgrOp.name].documents # {}

\* C16: a delete of an index, by Storage.DeleteIndex or by
\* IndexManager.DeleteIndex, returns not-found and changes nothing when the
\* name is not registered, and otherwise returns no error and removes the
\* registry entry and the five buckets of the name; a create that then
\* succeeds leaves the index without documents, chunks or hashes and with
\* next vector id 1.
C16_DeleteIndex ==
    [][/\ (mgrOp'.kind \in {"store-delete", "mgr-delete"} /\ mgrOps' = mgrOps + 1) =>
            LET name == mgrOp'.name
            IN  IF name \notin registry
                THEN /\ mgrOp'.err = "notfound"
                     /\ registry' = registry
                     /\ buckets' = buckets
                ELSE /\ mgrOp'.err = "nil"
                     /\ registry' = registry \ {name}
                     /\ ~Has(buckets', name)
       /\ (/\ mgrOp'.kind \in {"store-create", "mgr-create"}
           /\ mgrOps' = mgrOps + 1
           /\ mgrOp'.err = "nil") =>
            buckets'[mgrOp'.name] =
                [EmptyBuckets EXCEPT !.metadata = InitialMetadata]]_vars

\* C17: directly after a successful IndexManager.CreateIndex(name),
\* GetIndex(name) returns the index and ListIndexes contains name; directly
\* after a successful IndexManager.DeleteIndex(name), GetIndex(name) fails
\* and ListIndexes does not contain name.
C17_CreateGetListDelete ==
    [][/\ (mgrOp.kind = "mgr-create" /\ mgrOp.err = "nil") =>
            /\ (mgrOp'.kind = "get" /\ mgrOp'.name = mgrOp.name) =>
                  mgrOp'.err = "nil"
            /\ mgrOp'.kind = "list" => mgrOp.name \in mgrOp'.names
       /\ (mgrOp.kind = "mgr-delete" /\ mgrOp.err = "nil") =>
            /\ (mgrOp'.kind = "get" /\ mgrOp'.name = mgrOp.name) =>
                  mgrOp'.err = "notfound"
            /\ mgrOp'.kind = "list" => mgrOp.name \notin mgrOp'.names]_vars

\* C18: when the IndexManager.CreateIndex calls for all the names have
\* returned without error in one manager, ListIndexes returns exactly
\* those names.
C18_ConcurrentCreatesListed ==
    (/\ mgrOp.kind = "list"
     /\ DOMAIN implIndexes = Names
     /\ mgrOps = Cardinality(Names))
        => mgrOp.names = Names

\* C19: after IndexManager.Close has returned, the database handle is closed
\* and the graph file of every index equals the graph the manager holds in
\* memory for it.
C19_CloseSavesAndCloses ==
    mgrOp.kind = "close" =>
        /\ ~dbOpen
        /\ \A n \in DOMAIN implIndexes : files[n] = implIndexes[n].graph

\* C20: a manager opened on the data path after a successful ingest, a Close
\* and the end of the process holds every index the earlier manager held,
\* each with the same set of vector ids in its graph.
C20_ReopenRoundTrip ==
    mgrOp.mark = "reopened" =>
        /\ DOMAIN implIndexes = DOMAIN mgrOp.graphs
        /\ \A n \in DOMAIN mgrOp.graphs : implIndexes[n].graph = mgrOp.graphs[n]

\* C21: HNSWIndex.Add with a vector whose length is not the dimension
\* returns the dimension error and leaves the graph, its size and
\* isModified as they were; HNSWIndex.Search with a query whose length is
\* not the dimension returns the dimension error, on an empty graph too.
C21_DimensionMismatch ==
    [][/\ (annOp'.kind = "add" /\ annOp'.vector # Dimension) =>
            annOp'.err = "dimension" /\ ann' = ann
       /\ (annOp'.kind = "add" /\ annOp'.vector = Dimension) =>
            annOp'.err = "nil" /\ annOp'.id \in ann'.graph
       /\ (annOp'.kind = "search" /\ annOp'.vector # Dimension) =>
            annOp'.err = "dimension" /\ annOp'.results = {}]_vars

\* A two-element vector was refused by a graph that holds a vector and has
\* no unsaved change.
C21_Witness ==
    /\ annOp.kind = "add"
    /\ annOp.vector = 2
    /\ annOp.err = "dimension"
    /\ ann.graph # {}
    /\ ~ann.isModified

\* C22 as stated: every HNSWIndex.Search on an empty graph returns no
\* result and no error, whatever the query length and k.
C22_EmptySearchAnyQuery ==
    (annOp.kind = "search" /\ ann.graph = {}) =>
        annOp.err = "nil" /\ annOp.results = {}

\* C22 amended: on an empty graph HNSWIndex.Search returns no result and no
\* error for every k when the query has the dimension of the index, and the
\* dimension error when it has another length: the dimension test is made
\* first.
C22_EmptySearchChecksDimension ==
    (annOp.kind = "search" /\ ann.graph = {}) =>
        /\ annOp.results = {}
        /\ annOp.err = (IF annOp.vector = Dimension THEN "nil" ELSE "dimension")

\* A four-element query on an empty graph of dimension 3 was refused.
C22_Witness ==
    /\ annOp.kind = "search"
    /\ ann.graph = {}
    /\ annOp.vector = 4
    /\ annOp.err = "dimension"

\* The number of windows the strided loop emits for n tokens: one more
\* than the number of strides after which a window first reaches n.
RECURSIVE WindowCount(_, _, _)
WindowCount(n, c, j) ==
    IF j * (c.chunkSize - c.overlapSize) + c.chunkSize >= n THEN j + 1
    ELSE WindowCount(n, c, j + 1)

\* C23: Chunker.Chunk emits nothing for the empty text; one chunk at
\* position 0 holding the input text when the text has at most chunkSize
\* tokens; and otherwise exactly the windows T[i : min(i+chunkSize, |T|)]
\* for i = 0, stride, 2*stride, ... up to the first window that reaches
\* |T|, at positions 0..k-1, none longer than chunkSize, together covering
\* every token, consecutive windows sharing exactly overlapSize tokens.
C23_ChunkWindows ==
    chunker.called =>
        LET c == chunker.c
            T == EncodeText(chunker.text)
            n == Len(T)
            out == chunker.chunks
            stride == c.chunkSize - c.overlapSize
            window(j) == EncodeText(out[j].Text)
        IN  IF n = 0 THEN out = << >>
            ELSE IF n <= c.chunkSize
            THEN /\ Len(out) = 1
                 /\ out[1].Position = 0
                 /\ out[1].Text = chunker.text
            ELSE /\ Len(out) = WindowCount(n, c, 0)
                 /\ \A j \in 1..Len(out) :
                       /\ out[j].Position = j - 1
                       /\ window(j) = SubSeq(T, (j - 1) * stride + 1,
                                             Min((j - 1) * stride + c.chunkSize, n))
                       /\ Len(window(j)) <= c.chunkSize
                 /\ UNION {Range(window(j)) : j \in 1..Len(out)} = Range(T)
                 /\ \A j \in 1..(Len(out) - 1) :
                       Cardinality(Range(window(j)) \cap Range(window(j + 1)))
                          = c.overlapSize

\* A text of 90 tokens was cut by a chunker of size 50 and overlap 10 into
\* two windows, the second ending at the last token.
C23_Witness ==
    /\ chunker.called
    /\ chunker.c.chunkSize = 50
    /\ chunker.c.overlapSize = 10
    /\ Len(chunker.text) = 90
    /\ Len(chunker.chunks) = 2

\* The texts of the batch whose embedding fails, as 0-based input indexes.
FailingIndexes == {j - 1 : j \in {x \in 1..Len(emb.texts) : ~emb.texts[x].ok}}

\* C24: when GenerateEmbeddingsConcurrent has returned and every text could
\* be embedded, it returned no error and a list as long as texts whose
\* element i is the embedding of texts[i], whatever the number of workers
\* and the order in which the results arrived.
C24_ConcurrentOrderByInput ==
    (emb.mode = "conc" /\ emb.pc = "done" /\ FailingIndexes = {}) =>
        /\ emb.ret.kind = "ok"
        /\ Len(emb.ret.embeddings) = Len(emb.texts)
        /\ \A j \in 1..Len(emb.texts) :
              emb.ret.embeddings[j] = GenerateEmbedding(emb.texts[j]).embedding

\* Two workers embedded three texts and the result of the second text
\* reached the caller before the result of the first.
C24_Witness ==
    /\ emb.mode = "conc"
    /\ emb.pc = "done"
    /\ emb.W = 2
    /\ Len(emb.texts) = 3
    /\ FailingIndexes = {}
    /\ emb.texts[1].text # emb.texts[2].text
    /\ emb.order[1] = 1
    /\ emb.order[2] = 0

\* C25: when a batch call has returned and some text could not be embedded,
\* it returned an error and no embeddings, and the error is the one of the
\* smallest failing input index, from GenerateEmbeddings and from
\* GenerateEmbeddingsConcurrent alike.
C25_FirstErrorByIndex ==
    (emb.pc = "done" /\ FailingIndexes # {}) =>
        /\ emb.ret.kind = "error"
        /\ emb.ret.embeddings = << >>
        /\ \A j \in FailingIndexes : emb.ret.index <= j

\* The positions of the batch whose documents are enqueued, and of those the
\* ones started before the token stopped the loop.
EnqueuedIdx(op) == {i \in 1..Len(op.docs) : op.res.Classes[i] # "unchanged"}
StartedIdx(op) ==
    {i \in EnqueuedIdx(op) :
        \/ op.res.CancelAfter = 0
        \/ Cardinality({j \in EnqueuedIdx(op) : j <= i}) <= op.res.CancelAfter}

\* The chunks of the documents at the positions S, summed from position i on.
RECURSIVE ChunkSum(_, _, _)
ChunkSum(docs, S, i) ==
    IF i > Len(docs) THEN 0
    ELSE (IF i \in S THEN Len(Chunk(docs[i].Content)) ELSE 0)
            + ChunkSum(docs, S, i + 1)

C27_NoOrphanVector ==
    graph \subseteq {chunks[c].HNSWId : c \in DOMAIN chunks}

\* C28: in every state the coordinator reaches, the parent URI of every
\* chunk record is the URI of a stored document record.
C28_ChunkParentExists ==
    \A c \in DOMAIN chunks : Has(documents, chunks[c].DocumentURI)

\* C29: at most one AddDocumentBatch call is inside the coordinator of an
\* index at any time: while one goroutine is between the entry and the
\* return of its call, no other goroutine is.
C29_MutatingOpsSerialized ==
    \A v, w \in Workers :
        v # w => (workers[v].pc = "idle" \/ workers[w].pc = "idle")

\* C30: every vector inserted into the graph has an id greater than every
\* id already in the graph: insertions follow the allocation order of the
\* ids, with two AddDocumentBatch calls in flight as well.
C30_InsertInAllocationOrder ==
    [][\A x \in graph' \ graph : \A y \in graph : y < x]_vars

\* C33: the dirty flag is true after every successful Add, AddBatch, Delete
\* and Clear, false after every successful Save and load, and a failed Add
\* or a failed Save leaves it as it was.
C33_DirtyFlag ==
    [][ /\ (annOp'.kind \in {"add", "addBatch", "delete", "clear"}
             /\ annOp'.err = "nil") => ann'.isModified
        /\ (annOp'.kind \in {"save", "load"} /\ annOp'.err = "nil")
              => ~ann'.isModified
        /\ (annOp'.kind \in {"add", "save"} /\ annOp'.err # "nil")
              => ann'.isModified = ann.isModified ]_vars

\* A batch was added to an index that had been saved: the flag is set again.
C33_Witness ==
    /\ annOp.kind = "addBatch"
    /\ annOp.err = "nil"
    /\ ann.onDisk
    /\ ann.isModified
    /\ ann.graph # ann.diskGraph

\* The tier of a lock: the managers', the coordinator's, the HNSWIndex's.
Tier(l) ==
    IF l \in {MgrLock, ImplLock} THEN 1 ELSE IF l = CoordLock THEN 2 ELSE 3

\* A goroutine is about to read the graph inside Search.
SearchReading(t) ==
    /\ threads[t].op = "Search"
    /\ Instr(t).k \in {"graph.Len", "graph.Search"}

\* A goroutine has inserted or removed a node and not yet relinked the graph.
MidMutation(t) == Instr(t).k \in {"graph.Add:links", "graph.Delete:links"}

\* A goroutine has asked for a lock and is blocked.
Blocked(t) ==
    \/ Instr(t).k = "Lock" /\ ~CanLock(locks[Instr(t).l])
    \/ Instr(t).k = "RLock" /\ ~CanRLock(locks[Instr(t).l])

\* C31: a Search running concurrently with Add, AddBatch, Delete or Clear
\* on the same HNSWIndex never reads the graph while a mutation is partly
\* applied: it sees the graph before or after the mutation.
C31_SearchSeesWholeGraph ==
    \A s \in Threads, m \in Threads :
        ~(s # m /\ SearchReading(s) /\ MidMutation(m))

\* A Search reads the graph while an Add waits for the lock behind it.
C31_Witness ==
    \E s \in Threads, m \in Threads :
        /\ SearchReading(s)
        /\ threads[m].op = "Add"
        /\ m \in locks[AnnLock].waiting

\* C32: Save runs under the exclusive lock, so two Saves never write the
\* index file at the same time.
C32_SavesNeverOverlap ==
    \A t \in Threads, u \in Threads :
        ~(t # u /\ Instr(t).k = "Export" /\ Instr(u).k = "Export")

\* C34: a goroutine asking for a lock holds only locks of an outer tier
\* (manager, then coordinator, then HNSWIndex), so never the same lock and
\* never an inner one, and a blocked goroutine always has another goroutine
\* that can run: there is no deadlock.
C34_LockOrder ==
    \A t \in Threads :
        /\ Instr(t).k \in LockKinds =>
              \A h \in Held(t) : Tier(h) < Tier(Instr(t).l)
        /\ Blocked(t) =>
              \E u \in Threads \ {t} :
                  threads[u].op # "idle" /\ ~Blocked(u)

\* An Add waits for HNSWIndex.mu while a Save holds it shared, and a new
\* reader queues behind the waiting writer.
C34_Witness ==
    \E t \in Threads, u \in Threads :
        /\ threads[t].op = "Add"
        /\ t \in locks[AnnLock].waiting
        /\ threads[u].op = "Save"
        /\ locks[AnnLock].readers[u] > 0

\* C35: after an ingest that enqueued at least one document completes, the
\* metadata has DocumentCount equal to the number of stored document records
\* and ChunkCount equal to the batch's ProcessedChunks, and NextHNSWId is not
\* lower than before.
C35_MetadataCounts ==
    [][ (/\ lastOp'.kind = "ingest"
         /\ lastOp'.res.Err = "nil"
         /\ \E i \in 1..Len(lastOp'.docs) : lastOp'.res.Classes[i] # "unchanged")
        => /\ metadata'.DocumentCount = Cardinality(DOMAIN documents')
           /\ metadata'.ChunkCount = lastOp'.res.ProcessedChunks
           /\ metadata'.NextHNSWId >= metadata.NextHNSWId ]_vars

\* C36: every ingest result has TotalDocuments equal to the number of
\* submitted documents and to NewDocuments + UpdatedDocuments +
\* UnchangedDocuments, and every key of FailedURIs is the URI of a document
\* the batch classified new or updated.
C36_ResultCounts ==
    lastOp.kind = "ingest" =>
        LET res == lastOp.res
        IN  /\ res.TotalDocuments = Len(lastOp.docs)
            /\ res.TotalDocuments = res.NewDocuments + res.UpdatedDocuments
                                        + res.UnchangedDocuments
            /\ \A u \in DOMAIN res.FailedURIs :
                  \E i \in 1..Len(lastOp.docs) :
                      /\ lastOp.docs[i].URI = u
                      /\ res.Classes[i] \in {"new", "updated"}
            /\ Cardinality(DOMAIN res.FailedURIs)
                  <= res.NewDocuments + res.UpdatedDocuments

\* A batch of an unchanged document and a document whose processing failed.
C36_Witness ==
    /\ lastOp.kind = "ingest"
    /\ lastOp.res.UnchangedDocuments = 1
    /\ lastOp.res.NewDocuments = 1
    /\ DOMAIN lastOp.res.FailedURIs # {}

\* C37: in an ingest without failures NewDocuments is the number of URIs
\* that had no document record before the ingest and have one after it.
C37_NewCountsNewRecords ==
    [][ (/\ lastOp'.kind = "ingest"
         /\ lastOp'.res.Err = "nil"
         /\ DOMAIN lastOp'.res.FailedURIs = {})
        => lastOp'.res.NewDocuments
             = Cardinality(DOMAIN documents' \ DOMAIN documents) ]_vars

\* The chunk records and the doc->chunks entry of a document.
ChunkRecordsOf(u) ==
    <<{chunks[c] : c \in {k \in DOMAIN chunks : chunks[k].DocumentURI = u}},
      IF Has(docChunks, u) THEN docChunks[u] ELSE << >>>>

\* C40: chunk keys of different documents never collide: an ingest or a
\* delete leaves the chunk records and the doc->chunks entry of every
\* document it was not given as they were, also when documents have the
\* same content.
C40_ChunkKeysDisjoint ==
    [][ \A u \in URIs :
          (/\ lastOp'.kind \in {"ingest", "delete"}
           /\ lastOp'.uri # u
           /\ \A i \in 1..Len(lastOp'.docs) : lastOp'.docs[i].URI # u)
          => ChunkRecordsOf(u)' = ChunkRecordsOf(u) ]_vars

\* Two documents with the same content are stored, each with a chunk record,
\* and the last ingest was given only the second.
C40_Witness ==
    /\ lastOp.kind = "ingest"
    /\ Len(lastOp.docs) = 1
    /\ lastOp.docs[1].URI = "u2"
    /\ Has(documents, "u1") /\ Has(documents, "u2")
    /\ documents["u1"].Content = documents["u2"].Content
    /\ ChunkRecordsOf("u1")[1] # {}
    /\ ChunkRecordsOf("u2")[1] # {}

\* C38: the HNSWIndex a coordinator uses has the dimension its index was
\* created with, before and after a restart, that dimension is positive, and
\* CreateIndex never fails on the dimension; hence a vector accepted before
\* the restart is accepted after it.
C38_DimensionSurvivesReopen ==
    /\ dim.op.err # "dimension must be positive"
    /\ \A n \in Names :
          dim.hnswDimension[n] # 0 =>
              /\ dim.createdDimension[n] > 0
              /\ dim.hnswDimension[n] = dim.createdDimension[n]
              /\ \A length \in dim.accepted[n] : length = dim.hnswDimension[n]

\* The caller has returned, no job is left, every worker has left its loop
\* and the results channel is closed.
EmbTerminated ==
    /\ emb.pc = "done"
    /\ emb.jobs = << >>
    /\ emb.jobsClosed
    /\ \A w \in DOMAIN emb.wk : emb.wk[w].pc = "exit"
    /\ emb.resultsClosed

\* C39: GenerateEmbeddingsConcurrent on a non-empty batch terminates for
\* every worker count, with or without failing texts: the caller returns,
\* every job is consumed, every worker exits and results is closed, so no
\* send waits forever, also after the caller returned at the first error.
C39_ConcurrentTerminates ==
    (emb.mode = "conc" /\ emb.texts # << >>) ~> EmbTerminated

\* The caller returned at an error and left results in the channel; the
\* workers have all exited and the channel is closed.
C39_Witness ==
    /\ EmbTerminated
    /\ emb.ret.kind = "error"
    /\ emb.results # << >>

====
